---- MODULE Spec2Model ----
(***************************************************************************)
(* dui: the interaction state machine of the terminal client (Model.Update *)
(* and the handlers it dispatches to), the commands it issues as           *)
(* background tasks, and the messages those tasks send back.               *)
(*                                                                         *)
(* The Model struct is the variable m, a record with the struct's fields.  *)
(* Every handler is an operator from a Model (and its input) to the pair   *)
(* the Go code returns: the updated Model and the tea.Cmd.  Indices        *)
(* (cursor, currentTable, selected) are 0-based as in the code; sequences  *)
(* are 1-based, so items[cursor] is written m.items[m.cursor + 1].         *)
(***************************************************************************)
EXTENDS Integers, Sequences, FiniteSets, TLC

\* ------------------------------------------------------------------------
\* Bounds of the model
\* ------------------------------------------------------------------------

\* Background tasks in flight at once; keystrokes that would issue one more
\* are not taken.  (The program itself has no such limit.)
MaxPending == 2

\* Backend calls of one Scan, Query or ListTables; a loop that has made
\* them makes no more.
MaxCalls == 4

\* Temporary files in the directory at a time; keystrokes and messages that
\* would leave one more are not taken.
MaxTmpFiles == 2

\* ------------------------------------------------------------------------
\* Values
\* ------------------------------------------------------------------------

\* A nil error / nil item.
Nil == "<nil>"

ModeNormal == "Normal"
ModeCommand == "Command"
ModeTableSelect == "TableSelect"
ModeItemView == "ItemView"
ModeConfirmDelete == "ConfirmDelete"
ModeHelp == "Help"
ModeErrorView == "ErrorView"

Modes ==
  {ModeNormal, ModeCommand, ModeTableSelect, ModeItemView,
   ModeConfirmDelete, ModeHelp, ModeErrorView}

\* The length above which setError opens the error view.
ErrViewThreshold == 50

\* The number of characters of a long error kept on the status line.
ErrStatusKeep == 47

\* Records of the backend, named by their partition-key value.
Records == {"A", "B", "C"}

TableInfo(name, pk, sk) == [Name |-> name, PartitionKey |-> pk, SortKey |-> sk]

T1 == TableInfo("t1", "pk", "")
T2 == TableInfo("t2", "id", "ts")

\* Error texts of the backend: 50 characters (not over the threshold) and
\* 51 characters (over it).
Err50 == "ResourceNotFoundException: table does not exist !!"
Err51 == "RequestError: send request failed: connection refus"

\* An unknown verb long enough for "unknown command: <verb>" to pass the
\* threshold.
LongVerb == "abcdefghijklmnopqrstuvwxyzabcdefghijklmn"

\* ------------------------------------------------------------------------
\* Strings (package strings, fmt)
\* ------------------------------------------------------------------------

CharAt(s, i) == SubSeq(s, i, i)

IsSpace(c) == c \in {" ", "\t", "\n", "\r"}

RECURSIVE TrimLeft(_)
TrimLeft(s) ==
  IF Len(s) > 0 /\ IsSpace(CharAt(s, 1))
  THEN TrimLeft(SubSeq(s, 2, Len(s)))
  ELSE s

RECURSIVE TrimRight(_)
TrimRight(s) ==
  IF Len(s) > 0 /\ IsSpace(CharAt(s, Len(s)))
  THEN TrimRight(SubSeq(s, 1, Len(s) - 1))
  ELSE s

\* strings.TrimSpace
TrimSpace(s) == TrimRight(TrimLeft(s))

\* The end of the word that starts at position i of s.
RECURSIVE WordEnd(_, _)
WordEnd(s, i) ==
  IF i < Len(s) /\ ~IsSpace(CharAt(s, i + 1)) THEN WordEnd(s, i + 1) ELSE i

\* strings.Fields: the maximal runs of non-space characters, in order.
RECURSIVE FieldsFrom(_, _)
FieldsFrom(s, i) ==
  IF i > Len(s) THEN <<>>
  ELSE IF IsSpace(CharAt(s, i)) THEN FieldsFrom(s, i + 1)
  ELSE LET e == WordEnd(s, i)
       IN <<SubSeq(s, i, e)>> \o FieldsFrom(s, e + 1)

Fields(s) == FieldsFrom(s, 1)

UpperToLower ==
  [c \in {"A", "B", "C", "D", "E", "F", "G", "H", "I", "J", "K", "L", "M",
          "N", "O", "P", "Q", "R", "S", "T", "U", "V", "W", "X", "Y", "Z"} |->
     CASE c = "A" -> "a" [] c = "B" -> "b" [] c = "C" -> "c" [] c = "D" -> "d"
       [] c = "E" -> "e" [] c = "F" -> "f" [] c = "G" -> "g" [] c = "H" -> "h"
       [] c = "I" -> "i" [] c = "J" -> "j" [] c = "K" -> "k" [] c = "L" -> "l"
       [] c = "M" -> "m" [] c = "N" -> "n" [] c = "O" -> "o" [] c = "P" -> "p"
       [] c = "Q" -> "q" [] c = "R" -> "r" [] c = "S" -> "s" [] c = "T" -> "t"
       [] c = "U" -> "u" [] c = "V" -> "v" [] c = "W" -> "w" [] c = "X" -> "x"
       [] c = "Y" -> "y" [] OTHER -> "z"]

\* strings.ToLower
RECURSIVE ToLower(_)
ToLower(s) ==
  IF Len(s) = 0 THEN ""
  ELSE LET c == CharAt(s, 1)
       IN (IF c \in DOMAIN UpperToLower THEN UpperToLower[c] ELSE c)
            \o ToLower(SubSeq(s, 2, Len(s)))

\* strings.Contains(s, c) for a one-character c.
RECURSIVE ContainsChar(_, _)
ContainsChar(s, c) ==
  /\ Len(s) > 0
  /\ \/ CharAt(s, 1) = c
     \/ ContainsChar(SubSeq(s, 2, Len(s)), c)

\* fmt's %d
Itoa(n) == ToString(n)

\* strings.SplitN(s, "=", 2): the position of the first "=", 0 when none.
RECURSIVE IndexFrom(_, _, _)
IndexFrom(s, c, i) ==
  IF i > Len(s) THEN 0
  ELSE IF CharAt(s, i) = c THEN i
  ELSE IndexFrom(s, c, i + 1)

Digits == {"0", "1", "2", "3", "4", "5", "6", "7", "8", "9"}

\* fmt's accept: the position after the character at i of s when it is one
\* of set, i when it is not.
Accept(s, i, set) ==
  IF i <= Len(s) /\ CharAt(s, i) \in set THEN i + 1 ELSE i

\* for s.accept(digits) {}: the position after the digits from i on.
RECURSIVE AcceptAll(_, _, _)
AcceptAll(s, i, set) ==
  IF i <= Len(s) /\ CharAt(s, i) \in set THEN AcceptAll(s, i + 1, set) ELSE i

\* fmt's floatToken, as the steps of its scan: what each step accepts, and
\* the step that follows when the character is taken (yes) and when it is
\* not (no). "nan", or a sign and then "inf" or digits, a point and digits,
\* an exponent letter, a sign and digits, each of them optional.
\* (The texts scanned here hold no "_" and no "0x".)
floatToken ==
  [nan1    |-> [set |-> {"n", "N"}, yes |-> "nan2", no |-> "sign"],
   nan2    |-> [set |-> {"a", "A"}, yes |-> "nan3", no |-> "sign"],
   nan3    |-> [set |-> {"n", "N"}, yes |-> "end", no |-> "sign"],
   sign    |-> [set |-> {"+", "-"}, yes |-> "inf1", no |-> "inf1"],
   inf1    |-> [set |-> {"i", "I"}, yes |-> "inf2", no |-> "digits"],
   inf2    |-> [set |-> {"n", "N"}, yes |-> "inf3", no |-> "digits"],
   inf3    |-> [set |-> {"f", "F"}, yes |-> "end", no |-> "digits"],
   digits  |-> [set |-> Digits, yes |-> "digits", no |-> "point"],
   point   |-> [set |-> {"."}, yes |-> "frac", no |-> "exp"],
   frac    |-> [set |-> Digits, yes |-> "frac", no |-> "exp"],
   exp     |-> [set |-> {"e", "E", "p", "P"}, yes |-> "esign", no |-> "end"],
   esign   |-> [set |-> {"+", "-"}, yes |-> "edigits", no |-> "edigits"],
   edigits |-> [set |-> Digits, yes |-> "edigits", no |-> "end"]]

\* The scan from position i at a step: the position after the token.
RECURSIVE FloatTokenFrom(_, _, _)
FloatTokenFrom(s, i, step) ==
  IF step = "end" THEN i
  ELSE IF i <= Len(s) /\ CharAt(s, i) \in floatToken[step].set
       THEN FloatTokenFrom(s, i + 1, floatToken[step].yes)
       ELSE FloatTokenFrom(s, i, floatToken[step].no)

\* The position after the text that %f takes from the front of s.
FloatTokenEnd(s) == FloatTokenFrom(s, 1, "nan1")

\* strconv.Atoi returns no error: a sign at most, and digits.
AtoiOK(s) ==
  LET sg == Accept(s, 1, {"+", "-"})
  IN sg <= Len(s) /\ AcceptAll(s, sg, Digits) = Len(s) + 1

\* strconv.ParseFloat returns no error: "nan", or a sign at most and then
\* "inf", or digits with a point at most, one digit at least, and at most an
\* exponent of e, a sign at most and one digit at least.
ParseFloatOK(s) ==
  \/ ToLower(s) = "nan"
  \/ \E sg \in {Accept(s, 1, {"+", "-"})} :
       \/ ToLower(SubSeq(s, sg, Len(s))) \in {"inf", "infinity"}
       \/ \E d \in {AcceptAll(s, sg, Digits)} :
          \E pt \in {Accept(s, d, {"."})} :
          \E f \in {AcceptAll(s, pt, Digits)} :
          \E e \in {Accept(s, f, {"e", "E"})} :
          \E es \in {Accept(s, e, {"+", "-"})} :
          \E ed \in {AcceptAll(s, es, Digits)} :
            /\ (d - sg) + (f - pt) > 0
            /\ \/ f = Len(s) + 1
               \/ e > f /\ ed > es /\ ed = Len(s) + 1

\* fmt's convertFloat returns no error: a text with a p is a number and,
\* after the p, an integer; any other text is a number.
ConvertFloatOK(s) ==
  LET p == IndexFrom(s, "p", 1)
  IN IF p > 0
     THEN ParseFloatOK(SubSeq(s, 1, p - 1)) /\ AtoiOK(SubSeq(s, p + 1, Len(s)))
     ELSE ParseFloatOK(s)

\* fmt.Sscanf(value, "%f", ...) returns no error: after leading blanks the
\* text is not at its end and the token at its front converts (the text
\* after the token is left unread, so "42x" scans).
SscanfFloatOK(value) ==
  \E v \in {TrimLeft(value)} :
    /\ Len(v) > 0
    /\ \E token \in {SubSeq(v, 1, FloatTokenEnd(v) - 1)} : ConvertFloatOK(token)

\* ParseKeyValue: [err, key, type, value]
ParseKeyValue(keyValue) ==
  LET eq == IndexFrom(keyValue, "=", 1)
  IN IF eq = 0
     THEN [err |-> "invalid key=value format: " \o keyValue,
           key |-> "", type |-> "", value |-> ""]
     ELSE LET key == TrimSpace(SubSeq(keyValue, 1, eq - 1))
              value == TrimSpace(SubSeq(keyValue, eq + 1, Len(keyValue)))
          IN IF SscanfFloatOK(value) /\ ~ContainsChar(value, "\"")
             THEN [err |-> Nil, key |-> key, type |-> "N", value |-> value]
             ELSE [err |-> Nil, key |-> key, type |-> "S", value |-> value]

\* ItemToPrettyJSON of a record that holds its key attribute only.
ItemToPrettyJSON(item) == "{\n  \"pk\": \"" \o item \o "\"\n}"

\* ------------------------------------------------------------------------
\* Commands (tea.Cmd) and messages (tea.Msg)
\* ------------------------------------------------------------------------

\* A command: the closure the handler returns, with what it captured.
\*   todo      batch delete: the indices of toDelete not yet visited
\*   count     batch delete: the closure's counter, deleted
\*   deleted   batch delete: the records DeleteItem was called for
\*   atConfirm batch delete: the records that were at the indices of
\*             toDelete when the closure was built (history, not read back)
\*   failed    batch delete: the error DeleteItem returned, or Nil
\*   phase     editor: "queued" (tea.ExecProcess's message is on its way to
\*             the event loop), "running" (the event loop waits for the
\*             editor to exit) or "exited" (the callback's message is on
\*             its way)
\*   file      editor: the temporary file openEditor created for it and
\*             started the editor on
\*   removed   editor: the file its callback removed, which is the one it
\*             read when the editor did not fail (0 before the callback;
\*             history, not read back)
\*   left      editor: the text the editor left in its file when it exited
\*             without a failure ("" before, and when it failed; history,
\*             not read back)
\*   calls     scan, query, loadTables: the backend calls its page loop has
\*             made (history)
\*   got       the records, or table names, the loop has appended
\*   lastKey   the continuation cursor of the last response (0: none)
\*   elapsed   the seconds since the command's function started, up to
\*             the deadline
\*   late      a page arrived after the deadline (history)
Cmd(kind) ==
  [kind |-> kind, table |-> "", index |-> "", key |-> <<>>, cond |-> "",
   content |-> "", orig |-> "", todo |-> {}, count |-> 0, deleted |-> {},
   atConfirm |-> {}, failed |-> Nil, phase |-> "", file |-> 0, removed |-> 0,
   left |-> "", calls |-> 0, got |-> <<>>, lastKey |-> 0, elapsed |-> 0, late |-> FALSE]

NoCmd == Cmd("none")
QuitCmd == Cmd("quit")

IsTask(cmd) == cmd.kind \notin {"none", "quit"}

Msg(type) ==
  [type |-> type, tables |-> <<>>, items |-> <<>>, err |-> Nil,
   noMatch |-> FALSE, status |-> "", content |-> "", original |-> "",
   item |-> Nil]

NoMsg == Msg("none")

tablesLoadedMsg(tables, err) ==
  [Msg("tablesLoaded") EXCEPT !.tables = tables, !.err = err]

itemsLoadedMsg(items, err, noMatch) ==
  [Msg("itemsLoaded") EXCEPT !.items = items, !.err = err, !.noMatch = noMatch]

operationDoneMsg(status, err) ==
  [Msg("operationDone") EXCEPT !.status = status, !.err = err]

editorFinishedMsg(content, original, err) ==
  [Msg("editorFinished") EXCEPT
     !.content = content, !.original = original, !.err = err]

itemFetchedForEditMsg(item, err) ==
  [Msg("itemFetchedForEdit") EXCEPT !.item = item, !.err = err]

\* What a handler returns: (tea.Model, tea.Cmd).
Ret(model, cmd) == [m |-> model, cmd |-> cmd]

\* ------------------------------------------------------------------------
\* The Model
\* ------------------------------------------------------------------------

\* Temporary files are named by a number (TmpName); editTmpFile is 0 for
\* the empty string.  tmpFiles is the temporary directory, which the
\* handlers and callbacks act on: the pairs <<name, content>> of the files in
\* it.  It is no field of the struct.
NewModel(requestedTable) ==
  [tables |-> <<>>, currentTable |-> 0, requestedTable |-> requestedTable,
   items |-> <<>>, cursor |-> 0, selected |-> {},
   mode |-> ModeNormal, input |-> "", keyBuffer |-> "",
   status |-> "Loading tables...", err |-> Nil,
   viewContent |-> "", preserveStatus |-> FALSE, lastError |-> "",
   editTmpFile |-> 0, tmpFiles |-> {}]

\* The path of the temporary file numbered n: os.CreateTemp puts a random
\* 32-bit number, of ten digits here, for the * of "dui-*.json".
TmpName(n) == "/tmp/dui-" \o ToString(1000000000 + n) \o ".json"

\* The names of the files in a directory.
FileNames(files) == {f[1] : f \in files}

\* os.ReadFile of an existing file.
ReadFile(files, name) == (CHOOSE f \in files : f[1] = name)[2]

\* os.Remove; removing a file that does not exist changes nothing.
RemoveFile(files, name) == {f \in files : f[1] # name}

\* Writing content to the file name, created if it does not exist.
WriteFile(files, name, content) ==
  RemoveFile(files, name) \cup {<<name, content>>}

setError(model, errStr) ==
  IF Len(errStr) > ErrViewThreshold
  THEN [model EXCEPT
          !.lastError = errStr, !.err = errStr,
          !.status = SubSeq(errStr, 1, ErrStatusKeep) \o "... (/err)",
          !.viewContent = errStr,
          !.mode = ModeErrorView]
  ELSE [model EXCEPT !.lastError = errStr, !.err = errStr, !.status = errStr]

loadTables == Cmd("loadTables")

loadItems(tableName, indexName) ==
  [Cmd("scan") EXCEPT !.table = tableName, !.index = indexName]

CurrentTable(model) == model.tables[model.currentTable + 1]

\* (m.editOrigContent, which openEditor assigns, is read nowhere: the
\* callback compares with the origContent its closure captured.)
\* fs is what os.CreateTemp and WriteString do: fs.outcome, and fs.name the
\* name os.CreateTemp gives the new file.
openEditor(model, content, fs) ==
  LET name == fs.name
      created == [model EXCEPT
                    !.editTmpFile = name,
                    !.tmpFiles = WriteFile(model.tmpFiles, name, "")]
  IN CASE fs.outcome = "createFails" ->
            Ret([model EXCEPT !.status = "Error creating temp file: no space"],
                NoCmd)
       [] fs.outcome = "writeFails" ->
            Ret([created EXCEPT
                   !.tmpFiles = RemoveFile(created.tmpFiles, name),
                   !.status = "Error writing temp file: no space"],
                NoCmd)
       [] OTHER ->
            Ret([created EXCEPT
                   !.tmpFiles = WriteFile(created.tmpFiles, name, content)],
                [Cmd("editor") EXCEPT
                   !.orig = content, !.phase = "queued", !.file = name])

\* The editor process, started on the file of cmd: when the user changes the
\* text and saves, the file holds content (an editor writes the file anew
\* when it is gone); when the editor fails (runErr), or the user changes
\* nothing, the directory is left alone.
runEditor(model, cmd, content, runErr) ==
  IF runErr # Nil \/ content = cmd.orig THEN model
  ELSE [model EXCEPT !.tmpFiles = WriteFile(model.tmpFiles, cmd.file, content)]

\* editorCallback without the removal of a file that could not be read.
editorCallbackKeepsUnread(model, cmd, runErr, readErr) ==
  LET name == model.editTmpFile
      removed == [model EXCEPT !.tmpFiles = RemoveFile(model.tmpFiles, name)]
      exited == [cmd EXCEPT !.phase = "exited", !.removed = name]
  IN IF runErr # Nil
     THEN Ret(removed, [exited EXCEPT !.failed = runErr])
     ELSE IF name \notin FileNames(model.tmpFiles)
     THEN Ret(removed,
              [exited EXCEPT
                 !.failed = "open " \o TmpName(name)
                              \o ": no such file or directory"])
     ELSE IF readErr # Nil
     THEN Ret(model, [exited EXCEPT !.failed = readErr])
     ELSE Ret(removed,
              [exited EXCEPT !.content = ReadFile(model.tmpFiles, name)])

\* The callback openEditor gives tea.ExecProcess, run when the editor has
\* exited with runErr: it reads and removes m.editTmpFile as it is then.
\* readErr is an error of os.ReadFile on an existing file.  It returns the
\* Model and the command with the message to send in it.
editorCallback(model, cmd, runErr, readErr) ==
  LET name == model.editTmpFile
      removed == [model EXCEPT !.tmpFiles = RemoveFile(model.tmpFiles, name)]
      exited == [cmd EXCEPT !.phase = "exited", !.removed = name]
  IN IF runErr # Nil
     THEN Ret(removed, [exited EXCEPT !.failed = runErr])
     ELSE IF name \notin FileNames(model.tmpFiles)
     THEN Ret(removed,
              [exited EXCEPT
                 !.failed = "open " \o TmpName(name)
                              \o ": no such file or directory"])
     ELSE IF readErr # Nil
     THEN Ret(removed, [exited EXCEPT !.failed = readErr])
     ELSE Ret(removed,
              [exited EXCEPT !.content = ReadFile(model.tmpFiles, name)])

putNewItem(model, fs) ==
  LET content ==
        IF Len(model.tables) > 0
        THEN LET table == CurrentTable(model)
             IN IF table.SortKey # ""
                THEN "{\n  \"" \o table.PartitionKey \o "\": \"\",\n  \""
                       \o table.SortKey \o "\": \"\"\n}"
                ELSE "{\n  \"" \o table.PartitionKey \o "\": \"\"\n}"
        ELSE "{}"
  IN openEditor(model, content, fs)

editCurrentItem(model, fs) ==
  IF Len(model.items) = 0 \/ model.cursor >= Len(model.items)
  THEN Ret([model EXCEPT !.status = "No item selected"], NoCmd)
  ELSE openEditor(model, ItemToPrettyJSON(model.items[model.cursor + 1]), fs)

saveEditedItem(model, content) ==
  IF Len(model.tables) = 0
  THEN [Cmd("saveNoTable") EXCEPT !.content = content]
  ELSE [Cmd("save") EXCEPT
          !.table = CurrentTable(model).Name, !.content = content]

\* ------------------------------------------------------------------------
\* Commands typed on the command line
\* ------------------------------------------------------------------------

\* key[table.PartitionKey] = args[0]; key[table.SortKey] = args[1] when
\* there is a second argument and the table has a sort key.
KeyFromArgs(table, args) ==
  IF Len(args) > 1 /\ table.SortKey # ""
  THEN <<<<table.PartitionKey, args[1]>>, <<table.SortKey, args[2]>>>>
  ELSE <<<<table.PartitionKey, args[1]>>>>

\* executeQuery that takes the first of several arguments as the index name
\* whatever it holds.
executeQueryFirstIsIndex(model, args) ==
  IF Len(model.tables) = 0
  THEN Ret([model EXCEPT !.status = "No table selected"], NoCmd)
  ELSE
    LET hasIndex == Len(args) > 1
        kv == ParseKeyValue(IF hasIndex THEN args[2] ELSE args[1])
    IN IF kv.err # Nil
       THEN Ret([model EXCEPT !.status = "Error: " \o kv.err], NoCmd)
       ELSE Ret(model,
                [Cmd("query") EXCEPT
                   !.table = CurrentTable(model).Name,
                   !.index = IF hasIndex THEN args[1] ELSE "",
                   !.cond = kv.key \o " = :pk",
                   !.key = <<<<":pk", kv.type, kv.value>>>>])

executeQuery(model, args) ==
  IF Len(model.tables) = 0
  THEN Ret([model EXCEPT !.status = "No table selected"], NoCmd)
  ELSE
    LET table == CurrentTable(model)
        hasIndex == Len(args) > 1 /\ ~ContainsChar(args[1], "=")
        indexName == IF hasIndex THEN args[1] ELSE ""
        keyArgs == IF hasIndex THEN Tail(args) ELSE args
    IN IF Len(keyArgs) = 0
       THEN Ret([model EXCEPT !.status = "Usage: /query [indexName] pk=value"],
                NoCmd)
       ELSE
         LET kv == ParseKeyValue(keyArgs[1])
         IN IF kv.err # Nil
            THEN Ret([model EXCEPT !.status = "Error: " \o kv.err], NoCmd)
            ELSE Ret(model,
                     [Cmd("query") EXCEPT
                        !.table = table.Name, !.index = indexName,
                        !.cond = kv.key \o " = :pk",
                        !.key = <<<<":pk", kv.type, kv.value>>>>])

executeGet(model, args) ==
  IF Len(model.tables) = 0
  THEN Ret([model EXCEPT !.status = "No table selected"], NoCmd)
  ELSE LET table == CurrentTable(model)
       IN Ret(model,
              [Cmd("get") EXCEPT
                 !.table = table.Name, !.key = KeyFromArgs(table, args)])

executeUpdate(model, args) ==
  IF Len(model.tables) = 0
  THEN Ret([model EXCEPT !.status = "No table selected"], NoCmd)
  ELSE LET table == CurrentTable(model)
       IN Ret(model,
              [Cmd("fetchForEdit") EXCEPT
                 !.table = table.Name, !.key = KeyFromArgs(table, args)])

executeDelete(model, args) ==
  IF Len(model.tables) = 0
  THEN Ret([model EXCEPT !.status = "No table selected"], NoCmd)
  ELSE LET table == CurrentTable(model)
       IN Ret(model,
              [Cmd("delete") EXCEPT
                 !.table = table.Name, !.key = KeyFromArgs(table, args)])

\* toDelete: the selected indices, or the cursor when nothing is selected.
ToDelete(model) ==
  IF Cardinality(model.selected) > 0 THEN model.selected
  ELSE IF model.cursor < Len(model.items) THEN {model.cursor}
  ELSE {}

deleteSelectedItems(model) ==
  IF Len(model.tables) = 0 \/ Len(model.items) = 0 THEN NoCmd
  ELSE IF ToDelete(model) = {} THEN NoCmd
  ELSE [Cmd("batchDelete") EXCEPT
          !.table = CurrentTable(model).Name,
          !.todo = ToDelete(model),
          !.atConfirm = {model.items[i + 1] :
                           i \in {j \in ToDelete(model) : j < Len(model.items)}}]

\* The part of executeCommand after the special commands: the verb switch.
executeVerb(model, command, args, fs) ==
  LET unknown == Ret(setError(model, "unknown command: " \o command), NoCmd)
  IN CASE command = "/scan" ->
            IF Len(model.tables) > 0
            THEN Ret(model,
                     loadItems(CurrentTable(model).Name,
                               IF Len(args) > 0 THEN args[1] ELSE ""))
            ELSE unknown
       [] command = "/query" ->
            IF Len(args) < 1
            THEN Ret([model EXCEPT
                        !.status = "Usage: /query [indexName] pk=value"], NoCmd)
            ELSE executeQuery(model, args)
       [] command = "/get" ->
            IF Len(args) < 1
            THEN Ret([model EXCEPT !.status = "Usage: /get pk [sk]"], NoCmd)
            ELSE executeGet(model, args)
       [] command = "/put" -> putNewItem(model, fs)
       [] command = "/update" ->
            IF Len(args) < 1
            THEN Ret([model EXCEPT !.status = "Usage: /update pk [sk]"], NoCmd)
            ELSE executeUpdate(model, args)
       [] command \in {"/delete", "/rm"} ->
            IF Len(args) < 1
            THEN Ret([model EXCEPT !.mode = ModeConfirmDelete], NoCmd)
            ELSE executeDelete(model, args)
       [] OTHER -> unknown

executeCommand(model, line, fs) ==
  LET cmd == TrimSpace(line)
      parts == Fields(cmd)
  IN CASE cmd \in {":q", ":quit", "/q", "\\q"} -> Ret(model, QuitCmd)
       [] cmd \in {":?", ":help", "/?", "/help"} ->
            Ret([model EXCEPT !.mode = ModeHelp], NoCmd)
       [] cmd = "/err" ->
            IF model.lastError # ""
            THEN Ret([model EXCEPT
                        !.viewContent = model.lastError,
                        !.mode = ModeErrorView], NoCmd)
            ELSE Ret([model EXCEPT !.status = "No errors"], NoCmd)
       [] cmd = "/mlrd" ->
            Ret([model EXCEPT
                   !.status = "https://mlrd.tech/docs ~ https://mlrd.app"],
                NoCmd)
       [] OTHER ->
            IF Len(parts) = 0 THEN Ret(model, NoCmd)
            ELSE executeVerb(model, ToLower(parts[1]), Tail(parts), fs)

\* ------------------------------------------------------------------------
\* Keystrokes
\* ------------------------------------------------------------------------

\* Keys are named as tea.KeyMsg.String() names them; a key that is not one
\* of these is typed (or pasted) text.
SpecialKeys == {"esc", "enter", "ctrl+c", "up", "down"}

\* textinput.Model.Update on a key: text is appended to the value, the
\* other keys leave it alone.
inputUpdate(value, key) ==
  IF key \in SpecialKeys THEN value ELSE value \o key

handleCommandMode(model, key, fs) ==
  CASE key = "esc" ->
         Ret([model EXCEPT !.mode = ModeNormal, !.input = ""], NoCmd)
    [] key = "enter" ->
         executeCommand([model EXCEPT !.input = "", !.mode = ModeNormal],
                        model.input, fs)
    [] OTHER ->
         Ret([model EXCEPT !.input = inputUpdate(model.input, key)], NoCmd)

\* handleTableSelectMode that moves down without a look at the end of the
\* table list.
handleTableSelectModeUnbounded(model, key) ==
  CASE key = "esc" -> Ret([model EXCEPT !.mode = ModeNormal], NoCmd)
    [] key \in {"up", "k"} ->
         Ret(IF model.currentTable > 0
             THEN [model EXCEPT !.currentTable = model.currentTable - 1]
             ELSE model, NoCmd)
    [] key \in {"down", "j"} ->
         Ret([model EXCEPT !.currentTable = model.currentTable + 1], NoCmd)
    [] key = "enter" ->
         LET m1 == [model EXCEPT !.mode = ModeNormal]
         IN IF Len(m1.tables) > 0
            THEN Ret(m1, loadItems(CurrentTable(m1).Name, ""))
            ELSE Ret(m1, NoCmd)
    [] OTHER -> Ret(model, NoCmd)

handleTableSelectMode(model, key) ==
  CASE key = "esc" -> Ret([model EXCEPT !.mode = ModeNormal], NoCmd)
    [] key \in {"up", "k"} ->
         Ret(IF model.currentTable > 0
             THEN [model EXCEPT !.currentTable = model.currentTable - 1]
             ELSE model, NoCmd)
    [] key \in {"down", "j"} ->
         Ret(IF model.currentTable < Len(model.tables) - 1
             THEN [model EXCEPT !.currentTable = model.currentTable + 1]
             ELSE model, NoCmd)
    [] key = "enter" ->
         LET m1 == [model EXCEPT !.mode = ModeNormal]
         IN IF Len(m1.tables) > 0
            THEN Ret(m1, loadItems(CurrentTable(m1).Name, ""))
            ELSE Ret(m1, NoCmd)
    [] OTHER -> Ret(model, NoCmd)

handleItemViewMode(model, key, fs) ==
  CASE key \in {"esc", "q", "enter"} ->
         Ret([model EXCEPT !.mode = ModeNormal, !.viewContent = ""], NoCmd)
    [] key = "e" ->
         editCurrentItem([model EXCEPT !.mode = ModeNormal, !.viewContent = ""],
                         fs)
    [] OTHER -> Ret(model, NoCmd)

\* handleConfirmDeleteMode that drops the selection when the delete is
\* declined.
handleConfirmDeleteModeDropsSelection(model, key) ==
  CASE key \in {"y", "Y"} ->
         LET m1 == [model EXCEPT !.mode = ModeNormal]
         IN Ret(m1, deleteSelectedItems(m1))
    [] key \in {"n", "N", "esc"} ->
         Ret([model EXCEPT !.mode = ModeNormal, !.selected = {}], NoCmd)
    [] OTHER -> Ret(model, NoCmd)

handleConfirmDeleteMode(model, key) ==
  CASE key \in {"y", "Y"} ->
         LET m1 == [model EXCEPT !.mode = ModeNormal]
         IN Ret(m1, deleteSelectedItems(m1))
    [] key \in {"n", "N", "esc"} ->
         Ret([model EXCEPT !.mode = ModeNormal], NoCmd)
    [] OTHER -> Ret(model, NoCmd)

\* ":" and "/" in Normal mode.
enterCommandMode(model, prefix) ==
  LET m1 == [model EXCEPT
               !.mode = ModeCommand, !.input = prefix, !.keyBuffer = ""]
  IN IF model.err # Nil
     THEN [m1 EXCEPT
             !.err = Nil, !.status = Itoa(Len(model.items)) \o " items"]
     ELSE m1

\* The body of handleKeyPress after the mode switch.
handleNormalMode(model, key, fs) ==
  CASE key = "ctrl+c" -> Ret(model, QuitCmd)
    [] key = "q" ->
         IF model.keyBuffer = ":" THEN Ret(model, QuitCmd)
         ELSE Ret(model, NoCmd)
    [] key \in {":", "/"} -> Ret(enterCommandMode(model, key), NoCmd)
    [] key \in {"up", "k"} ->
         Ret([model EXCEPT
                !.cursor = IF model.cursor > 0 THEN model.cursor - 1
                           ELSE model.cursor,
                !.keyBuffer = ""], NoCmd)
    [] key \in {"down", "j"} ->
         Ret([model EXCEPT
                !.cursor = IF model.cursor < Len(model.items) - 1
                           THEN model.cursor + 1 ELSE model.cursor,
                !.keyBuffer = ""], NoCmd)
    [] key = "enter" ->
         IF model.input # ""
         THEN executeCommand([model EXCEPT !.input = "", !.keyBuffer = ""],
                             model.input, fs)
         ELSE IF Len(model.items) > 0 /\ model.cursor < Len(model.items)
         THEN Ret([model EXCEPT
                     !.viewContent =
                        ItemToPrettyJSON(model.items[model.cursor + 1]),
                     !.mode = ModeItemView,
                     !.keyBuffer = ""], NoCmd)
         ELSE Ret([model EXCEPT !.keyBuffer = ""], NoCmd)
    [] key = " " ->
         Ret([model EXCEPT
                !.selected =
                   IF Len(model.items) > 0
                   THEN IF model.cursor \in model.selected
                        THEN model.selected \ {model.cursor}
                        ELSE model.selected \cup {model.cursor}
                   ELSE model.selected,
                !.keyBuffer = ""], NoCmd)
    [] key = "e" ->
         IF Len(model.items) > 0 /\ Cardinality(model.selected) <= 1
         THEN editCurrentItem(model, fs)
         ELSE Ret([model EXCEPT !.keyBuffer = ""], NoCmd)
    [] key = "d" ->
         IF model.keyBuffer = "d"
         THEN Ret([model EXCEPT !.mode = ModeConfirmDelete, !.keyBuffer = ""],
                  NoCmd)
         ELSE Ret([model EXCEPT !.keyBuffer = "d"], NoCmd)
    [] key = "t" ->
         Ret([model EXCEPT !.mode = ModeTableSelect, !.keyBuffer = ""], NoCmd)
    [] key \in {"i", "a"} -> putNewItem([model EXCEPT !.keyBuffer = ""], fs)
    [] key = "?" ->
         Ret([model EXCEPT !.mode = ModeHelp, !.keyBuffer = ""], NoCmd)
    [] key = "esc" ->
         Ret([model EXCEPT
                !.keyBuffer = "", !.input = "", !.mode = ModeNormal], NoCmd)
    [] key = "g" ->
         IF model.keyBuffer = "g"
         THEN Ret([model EXCEPT !.cursor = 0, !.keyBuffer = ""], NoCmd)
         ELSE Ret([model EXCEPT !.keyBuffer = "g"], NoCmd)
    [] key = "G" ->
         Ret([model EXCEPT
                !.cursor = IF Len(model.items) - 1 > 0
                           THEN Len(model.items) - 1 ELSE 0,
                !.keyBuffer = ""], NoCmd)
    [] OTHER -> Ret([model EXCEPT !.keyBuffer = ""], NoCmd)

handleKeyPress(model, key, fs) ==
  CASE model.mode = ModeCommand -> handleCommandMode(model, key, fs)
    [] model.mode = ModeTableSelect -> handleTableSelectMode(model, key)
    [] model.mode = ModeItemView -> handleItemViewMode(model, key, fs)
    [] model.mode = ModeConfirmDelete -> handleConfirmDeleteMode(model, key)
    [] model.mode = ModeErrorView ->
         IF key \in {"esc", "enter", "q"}
         THEN Ret([model EXCEPT !.mode = ModeNormal, !.viewContent = ""], NoCmd)
         ELSE Ret(model, NoCmd)
    [] model.mode = ModeHelp ->
         IF key \in {"esc", "q", "?"}
         THEN Ret([model EXCEPT !.mode = ModeNormal, !.viewContent = ""], NoCmd)
         ELSE Ret(model, NoCmd)
    [] OTHER -> handleNormalMode(model, key, fs)

\* ------------------------------------------------------------------------
\* Messages
\* ------------------------------------------------------------------------

\* The index of the requested table in the list, -1 when it is not there.
RECURSIVE FindTable(_, _, _)
FindTable(tables, name, i) ==
  IF i >= Len(tables) THEN -1
  ELSE IF tables[i + 1].Name = name THEN i
  ELSE FindTable(tables, name, i + 1)

onTablesLoaded(model, msg) ==
  IF msg.err # Nil THEN Ret(setError(model, msg.err), NoCmd)
  ELSE
    LET m1 == [model EXCEPT !.tables = msg.tables]
        loaded == "Loaded " \o Itoa(Len(m1.tables)) \o " tables"
        found == FindTable(m1.tables, m1.requestedTable, 0)
        m2 == IF m1.requestedTable # ""
              THEN IF found < 0
                   THEN [m1 EXCEPT
                           !.currentTable = 0,
                           !.status = "Table '" \o m1.requestedTable
                                        \o "' not found, using "
                                        \o m1.tables[1].Name,
                           !.preserveStatus = TRUE]
                   ELSE [m1 EXCEPT !.currentTable = found, !.status = loaded]
              ELSE [m1 EXCEPT !.currentTable = 0, !.status = loaded]
    IN IF Len(m1.tables) > 0
       THEN Ret(m2, loadItems(CurrentTable(m2).Name, ""))
       ELSE Ret([m1 EXCEPT !.status = "No tables found"], NoCmd)

\* itemsLoadedMsg handled without "m.cursor = 0".
onItemsLoadedKeepsCursor(model, msg) ==
  IF msg.err # Nil THEN Ret(setError(model, msg.err), NoCmd)
  ELSE
    LET m1 == [model EXCEPT !.items = msg.items, !.selected = {}]
    IN Ret(IF msg.noMatch THEN [m1 EXCEPT !.status = "No matching item"]
           ELSE IF m1.preserveStatus THEN [m1 EXCEPT !.preserveStatus = FALSE]
           ELSE [m1 EXCEPT
                   !.status = "Loaded " \o Itoa(Len(m1.items)) \o " items"],
           NoCmd)

\* itemsLoadedMsg handled without "m.selected = make(map[int]bool)".
onItemsLoadedKeepsSelection(model, msg) ==
  IF msg.err # Nil THEN Ret(setError(model, msg.err), NoCmd)
  ELSE
    LET m1 == [model EXCEPT !.items = msg.items, !.cursor = 0]
    IN Ret(IF msg.noMatch THEN [m1 EXCEPT !.status = "No matching item"]
           ELSE IF m1.preserveStatus THEN [m1 EXCEPT !.preserveStatus = FALSE]
           ELSE [m1 EXCEPT
                   !.status = "Loaded " \o Itoa(Len(m1.items)) \o " items"],
           NoCmd)

\* itemsLoadedMsg handled without a look at preserveStatus.
onItemsLoadedOverwritesStatus(model, msg) ==
  IF msg.err # Nil THEN Ret(setError(model, msg.err), NoCmd)
  ELSE
    LET m1 == [model EXCEPT
                 !.items = msg.items, !.cursor = 0, !.selected = {}]
    IN Ret(IF msg.noMatch THEN [m1 EXCEPT !.status = "No matching item"]
           ELSE [m1 EXCEPT
                   !.status = "Loaded " \o Itoa(Len(m1.items)) \o " items"],
           NoCmd)

onItemsLoaded(model, msg) ==
  IF msg.err # Nil THEN Ret(setError(model, msg.err), NoCmd)
  ELSE
    LET m1 == [model EXCEPT
                 !.items = msg.items, !.cursor = 0, !.selected = {}]
    IN Ret(IF msg.noMatch THEN [m1 EXCEPT !.status = "No matching item"]
           ELSE IF m1.preserveStatus THEN [m1 EXCEPT !.preserveStatus = FALSE]
           ELSE [m1 EXCEPT
                   !.status = "Loaded " \o Itoa(Len(m1.items)) \o " items"],
           NoCmd)

\* onOperationDone without the reload.
onOperationDoneNoReload(model, msg) ==
  IF msg.err # Nil THEN Ret(setError(model, msg.err), NoCmd)
  ELSE Ret([model EXCEPT !.status = msg.status, !.err = Nil], NoCmd)

\* onOperationDone with a quit on an error.
onOperationDoneQuitsOnError(model, msg) ==
  IF msg.err # Nil THEN Ret(setError(model, msg.err), QuitCmd)
  ELSE
    LET m1 == [model EXCEPT !.status = msg.status, !.err = Nil]
    IN IF Len(m1.tables) > 0
       THEN Ret(m1, loadItems(CurrentTable(m1).Name, ""))
       ELSE Ret(m1, NoCmd)

onOperationDone(model, msg) ==
  IF msg.err # Nil THEN Ret(setError(model, msg.err), NoCmd)
  ELSE
    LET m1 == [model EXCEPT !.status = msg.status, !.err = Nil]
    IN IF Len(m1.tables) > 0
       THEN Ret(m1, loadItems(CurrentTable(m1).Name, ""))
       ELSE Ret(m1, NoCmd)

onEditorFinished(model, msg) ==
  IF msg.err # Nil THEN Ret(setError(model, msg.err), NoCmd)
  ELSE IF msg.content = msg.original
  THEN Ret([model EXCEPT !.status = "No changes made"], NoCmd)
  ELSE Ret(model, saveEditedItem(model, msg.content))

onItemFetchedForEdit(model, msg, fs) ==
  IF msg.err # Nil
  THEN Ret([model EXCEPT !.status = "Error: " \o msg.err], NoCmd)
  ELSE IF msg.item = Nil
  THEN Ret([model EXCEPT !.status = "Item not found"], NoCmd)
  ELSE editCurrentItem([model EXCEPT !.items = <<msg.item>>, !.cursor = 0], fs)

\* Model.Update on a message of a background task, or on a key (a message
\* with type "key" and the key's name in content).
Update(model, msg, fs) ==
  CASE msg.type = "tablesLoaded" -> onTablesLoaded(model, msg)
    [] msg.type = "itemsLoaded" -> onItemsLoaded(model, msg)
    [] msg.type = "operationDone" -> onOperationDone(model, msg)
    [] msg.type = "editorFinished" -> onEditorFinished(model, msg)
    [] msg.type = "itemFetchedForEdit" -> onItemFetchedForEdit(model, msg, fs)
    [] msg.type = "key" -> handleKeyPress(model, msg.content, fs)
    [] OTHER -> Ret(model, NoCmd)

KeyMsg(key) == [Msg("key") EXCEPT !.content = key]

\* ------------------------------------------------------------------------
\* Background tasks: what each command sends back
\* ------------------------------------------------------------------------

\* The error of JSONToItem(content), Nil when the text decodes.
JSONToItemErr(content) ==
  IF content = "{" THEN "invalid JSON: unexpected end of JSON input" ELSE Nil

\* GetItem for a key: the record with that partition-key value, or nil.
GetItemResults(key) ==
  {Nil} \cup {r \in Records : Len(key) > 0 /\ key[1][2] = r}

\* The messages a command's closure can return, given what the backend, the
\* editor and the file system can do in the environment E:
\*   E.tables  the table lists ListTables/DescribeTable return
\*   E.lists   the record lists Scan and Query return
\*   E.errors  the errors of the backend
\*   E.edits   what the editor leaves in the file when the user changed it
\* An editor returns what its callback found when the editor exited
\* (ExecProcess).
\* A batch delete returns only after its loop has ended (BatchDeleteStep).
Results(cmd, E) ==
  CASE cmd.kind = "loadTables" ->
         {tablesLoadedMsg(tl, Nil) : tl \in E.tables}
           \cup {tablesLoadedMsg(<<>>, e) : e \in E.errors}
    [] cmd.kind \in {"scan", "query"} ->
         {itemsLoadedMsg(l, Nil, FALSE) : l \in E.lists}
           \cup {itemsLoadedMsg(<<>>, e, FALSE) : e \in E.errors}
    [] cmd.kind = "get" ->
         {IF r = Nil THEN itemsLoadedMsg(<<>>, Nil, TRUE)
          ELSE itemsLoadedMsg(<<r>>, Nil, FALSE) : r \in GetItemResults(cmd.key)}
           \cup {itemsLoadedMsg(<<>>, e, FALSE) : e \in E.errors}
    [] cmd.kind = "fetchForEdit" ->
         {itemFetchedForEditMsg(r, Nil) : r \in GetItemResults(cmd.key)}
           \cup {itemFetchedForEditMsg(Nil, e) : e \in E.errors}
    [] cmd.kind = "delete" ->
         {operationDoneMsg("Item deleted", Nil)}
           \cup {operationDoneMsg("", e) : e \in E.errors}
    [] cmd.kind = "batchDelete" ->
         IF cmd.failed # Nil THEN {operationDoneMsg("", cmd.failed)}
         ELSE IF cmd.todo = {}
         THEN {operationDoneMsg("Deleted " \o Itoa(cmd.count) \o " item(s)",
                                Nil)}
         ELSE {}
    [] cmd.kind = "editor" /\ cmd.phase = "exited" ->
         IF cmd.failed # Nil THEN {editorFinishedMsg("", "", cmd.failed)}
         ELSE {editorFinishedMsg(cmd.content, cmd.orig, Nil)}
    [] cmd.kind = "save" ->
         IF JSONToItemErr(cmd.content) # Nil
         THEN {operationDoneMsg("", JSONToItemErr(cmd.content))}
         ELSE {operationDoneMsg("Item saved", Nil)}
                \cup {operationDoneMsg("", e) : e \in E.errors}
    [] cmd.kind = "saveNoTable" -> {operationDoneMsg("", "no table selected")}
    [] OTHER -> {}

\* ------------------------------------------------------------------------
\* The codec: records, the Go values of encoding/json, and JSON texts
\* ------------------------------------------------------------------------

\* A value, of the kind its tag t says:
\*   an AttributeValue   "S" "N" "BOOL" "NULL" "L" "M" "SS" "NS" "B" "BS"
\*   a Go value          "string" "float64" "json.Number" "bool" "nil"
\*                       "[]any" "map" "[]string" "[]byte" "[][]byte"
\*   a JSON text         "jstring" "jnumber" "jbool" "jnull" "jarray"
\*                       "jobject", and "jinvalid" for a text that is no JSON
\*   s     the text of a string, of a number (a float64 as %v prints it), of
\*         a boolean ("true", "false"), the bytes, the invalid text
\*   strs  the names of the attributes of a map or an object, in the order
\*         the program ranges over them or the text has them; the members
\*         of a set, of a []string, of a [][]byte
\*   kids  the values of the attributes, by position; the elements of a list
Node(t, s, strs, kids) == [t |-> t, s |-> s, strs |-> strs, kids |-> kids]

NoNode == Node("none", "", <<>>, <<>>)

Leaf(t, s) == Node(t, s, <<>>, <<>>)

\* The conversion of each element of a sequence.
MapSeq(Op(_), seq) == [i \in 1..Len(seq) |-> Op(seq[i])]

\* result[key] = value on a Go map.
MapPut(mp, key, value) ==
  IF \E i \in 1..Len(mp.strs) : mp.strs[i] = key
  THEN LET i == CHOOSE i \in 1..Len(mp.strs) : mp.strs[i] = key
       IN [mp EXCEPT !.kids[i] = value]
  ELSE [mp EXCEPT !.strs = Append(@, key), !.kids = Append(@, value)]

\* val[key] on a Go map that has the key.
MapGet(mp, key) ==
  mp.kids[CHOOSE i \in 1..Len(mp.strs) : mp.strs[i] = key]

\* The keys of a Go map, the names of a record.
MapKeys(mp) == {mp.strs[i] : i \in 1..Len(mp.strs)}

\* A sequence back to front.
Reverse(seq) == [i \in 1..Len(seq) |-> seq[Len(seq) + 1 - i]]

\* range over a Go map takes the entries in an order of its own: here the
\* order of strs, or the reverse of it.
Ranged(mp, rev) ==
  IF rev THEN [mp EXCEPT !.strs = Reverse(@), !.kids = Reverse(@)] ELSE mp

\* The elements of a sequence of texts with sep between them.
RECURSIVE Join(_, _)
Join(seq, sep) ==
  IF Len(seq) = 0 THEN ""
  ELSE IF Len(seq) = 1 THEN seq[1]
  ELSE seq[1] \o sep \o Join(Tail(seq), sep)

\* fmt.Sprintf("%v", v) of a Go value that json.Unmarshal gives; a map of
\* more than one key, which fmt prints in the order of its keys, is not
\* among the values printed here.
RECURSIVE SprintV(_)
SprintV(v) ==
  CASE v.t \in {"string", "float64", "json.Number", "bool"} -> v.s
    [] v.t = "nil" -> "<nil>"
    [] v.t = "[]any" -> "[" \o Join(MapSeq(SprintV, v.kids), " ") \o "]"
    [] v.t = "map" /\ Len(v.strs) = 0 -> "map[]"
    [] v.t = "map" /\ Len(v.strs) = 1 ->
         "map[" \o v.strs[1] \o ":" \o SprintV(v.kids[1]) \o "]"

\* base64.StdEncoding of the bytes that occur.
Base64(bytes) ==
  CASE bytes = "" -> ""
    [] bytes = "a" -> "YQ=="
    [] bytes = "hi" -> "aGk="

\* strconv's shortest text of the float64 a JSON number of digits and a
\* fraction is read as: zeros at the end of the fraction go, and the point
\* with them.
RECURSIVE FormatFloat(_)
FormatFloat(lit) ==
  IF ~ContainsChar(lit, ".") THEN lit
  ELSE IF CharAt(lit, Len(lit)) \in {"0", "."}
  THEN FormatFloat(SubSeq(lit, 1, Len(lit) - 1))
  ELSE lit

RECURSIVE attrToInterface(_)
attributeValueToInterface(item) ==
  Node("map", "", item.strs, MapSeq(attrToInterface, item.kids))

attrToInterface(av) ==
  CASE av.t = "S" -> Leaf("string", av.s)
    [] av.t = "N" -> Leaf("json.Number", av.s)
    [] av.t = "BOOL" -> Leaf("bool", av.s)
    [] av.t = "NULL" -> Leaf("nil", "")
    [] av.t = "L" -> Node("[]any", "", <<>>, MapSeq(attrToInterface, av.kids))
    [] av.t = "M" -> attributeValueToInterface(av)
    [] av.t \in {"SS", "NS"} -> Node("[]string", "", av.strs, <<>>)
    [] av.t = "B" -> Leaf("[]byte", av.s)
    [] av.t = "BS" -> Node("[][]byte", "", av.strs, <<>>)
    [] OTHER -> Leaf("nil", "")

\* json.Marshal of a Go value: the JSON text (MarshalIndent gives the same
\* text with other white space).
RECURSIVE Marshal(_)
Marshal(v) ==
  LET jstring(str) == Leaf("jstring", str)
      jbase64(bytes) == Leaf("jstring", Base64(bytes))
  IN CASE v.t = "string" -> Leaf("jstring", v.s)
       [] v.t \in {"json.Number", "float64"} -> Leaf("jnumber", v.s)
       [] v.t = "bool" -> Leaf("jbool", v.s)
       [] v.t = "nil" -> Leaf("jnull", "")
       [] v.t = "[]any" -> Node("jarray", "", <<>>, MapSeq(Marshal, v.kids))
       [] v.t = "map" -> Node("jobject", "", v.strs, MapSeq(Marshal, v.kids))
       [] v.t = "[]string" -> Node("jarray", "", <<>>, MapSeq(jstring, v.strs))
       [] v.t = "[]byte" -> jbase64(v.s)
       [] v.t = "[][]byte" -> Node("jarray", "", <<>>, MapSeq(jbase64, v.strs))

ItemToJSON(item) == Marshal(attributeValueToInterface(item))

\* The Go map of the first n attributes of a JSON object: of two
\* attributes of one name the later one stays.
RECURSIVE FromEntries(_, _, _)
FromEntries(names, values, n) ==
  IF n = 0 THEN Node("map", "", <<>>, <<>>)
  ELSE MapPut(FromEntries(names, values, n - 1), names[n], values[n])

\* What json.Unmarshal stores in an any for a JSON text.
RECURSIVE Decoded(_)
Decoded(j) ==
  CASE j.t = "jstring" -> Leaf("string", j.s)
    [] j.t = "jnumber" -> Leaf("float64", FormatFloat(j.s))
    [] j.t = "jbool" -> Leaf("bool", j.s)
    [] j.t = "jnull" -> Leaf("nil", "")
    [] j.t = "jarray" -> Node("[]any", "", <<>>, MapSeq(Decoded, j.kids))
    [] j.t = "jobject" ->
         FromEntries(j.strs, MapSeq(Decoded, j.kids), Len(j.strs))

\* The JSON text in a Go string, for the strings that occur.
TextOf(str) ==
  CASE str = "[1]" -> Node("jarray", "", <<>>, <<Leaf("jnumber", "1")>>)
    [] str = "5" -> Leaf("jnumber", "5")
    [] str \in {"true", "false"} -> Leaf("jbool", str)
    [] OTHER -> Leaf("jinvalid", str)

\* json.Unmarshal of a JSON text into a variable of a Go type, "map" for
\* map[string]any and "[]any": err and the value stored.
Unmarshal(j, type) ==
  LET goType == IF type = "map" THEN "map[string]interface {}"
                ELSE "[]interface {}"
      empty == Node(type, "", <<>>, <<>>)
      mismatch(what) ==
        [err |-> "json: cannot unmarshal " \o what
                   \o " into Go value of type " \o goType,
         val |-> NoNode]
  IN CASE j.t = "jinvalid" ->
            [err |-> IF j.s = "{" THEN "unexpected end of JSON input"
                     ELSE "invalid character '" \o CharAt(j.s, 1)
                            \o "' looking for beginning of value",
             val |-> NoNode]
       [] j.t = "jnull" -> [err |-> Nil, val |-> empty]
       [] j.t = "jobject" /\ type = "map" -> [err |-> Nil, val |-> Decoded(j)]
       [] j.t = "jarray" /\ type = "[]any" -> [err |-> Nil, val |-> Decoded(j)]
       [] j.t = "jobject" -> mismatch("object")
       [] j.t = "jarray" -> mismatch("array")
       [] j.t = "jstring" -> mismatch("string")
       [] j.t = "jnumber" -> mismatch("number")
       [] j.t = "jbool" -> mismatch("bool")

\* strings.LastIndex(s, c) for a one-character c, counted from 1; 0 when c
\* is not in s.
RECURSIVE LastIndexFrom(_, _, _)
LastIndexFrom(s, c, i) ==
  IF i = 0 THEN 0
  ELSE IF CharAt(s, i) = c THEN i
  ELSE LastIndexFrom(s, c, i - 1)

LastIndex(s, c) == LastIndexFrom(s, c, Len(s))

RECURSIVE ToUpper(_)
ToUpper(s) ==
  IF Len(s) = 0 THEN ""
  ELSE LET c == CharAt(s, 1)
           upper == {u \in DOMAIN UpperToLower : UpperToLower[u] = c}
       IN (IF upper # {} THEN CHOOSE u \in upper : TRUE ELSE c)
            \o ToUpper(SubSeq(s, 2, Len(s)))

\* The attribute name has a type hint: a "<" and a ">" at the end.
HasHint(key) == LastIndex(key, "<") # 0 /\ CharAt(key, Len(key)) = ">"

\* strings.TrimSuffix(key[idx+1:], ">") of a name with a hint.
TypeHint(key) == SubSeq(key, LastIndex(key, "<") + 1, Len(key) - 1)

\* A cleanKey that leaves the hint on the name.
CleanKeyKeepsHint(key) == key

\* key[:idx] of a name with a hint.
CleanKey(key) == SubSeq(key, 1, LastIndex(key, "<") - 1)

\* The map with the marker of a set that valueToAttr looks for.
SetMarker(marker, type, strs) ==
  Node("map", "", <<marker>>, <<Node(type, "", strs, <<>>)>>)

RECURSIVE convertValueWithTypeHint(_, _, _)
RECURSIVE ProcessFrom(_, _, _)
\* The loop of processTypeHints over the first n entries, ranged over in
\* the order rev says: err, or the result so far.
ProcessFrom(data, rev, n) ==
  IF n = 0 THEN [err |-> Nil, val |-> Node("map", "", <<>>, <<>>)]
  ELSE
    LET prev == ProcessFrom(data, rev, n - 1)
        key == data.strs[n]
        value == data.kids[n]
    IN IF prev.err # Nil THEN prev
       ELSE IF HasHint(key)
       THEN LET c == convertValueWithTypeHint(value, TypeHint(key), rev)
            IN IF c.err # Nil
               THEN [err |-> "failed to convert " \o CleanKey(key)
                               \o " with type " \o TypeHint(key)
                               \o ": " \o c.err,
                     val |-> NoNode]
               ELSE [err |-> Nil,
                     val |-> MapPut(prev.val, CleanKey(key), c.val)]
       ELSE [err |-> Nil, val |-> MapPut(prev.val, key, value)]

processTypeHints(data, rev) ==
  LET ranged == Ranged(data, rev)
  IN ProcessFrom(ranged, rev, Len(ranged.strs))

convertValueWithTypeHint(value, typeHint, rev) ==
  LET hint == ToUpper(typeHint)
      ok(val) == [err |-> Nil, val |-> val]
      fail(err) == [err |-> err, val |-> NoNode]
      list == Unmarshal(TextOf(value.s), "[]any")
      texts(seq) == MapSeq(SprintV, seq)
      set(marker, type) ==
        CASE value.t = "[]any" ->
               ok(SetMarker(marker, type, texts(value.kids)))
          [] value.t = "string" ->
               IF list.err # Nil THEN ok(SetMarker(marker, type, <<value.s>>))
               ELSE ok(SetMarker(marker, type, texts(list.val.kids)))
          [] OTHER -> ok(SetMarker(marker, type, <<SprintV(value)>>))
  IN CASE hint = "S" -> ok(Leaf("string", SprintV(value)))
       [] hint = "N" ->
            CASE value.t \in {"json.Number", "float64"} -> ok(value)
              [] value.t = "string" -> ok(Leaf("json.Number", value.s))
              [] OTHER -> ok(Leaf("json.Number", SprintV(value)))
       [] hint = "BOOL" ->
            CASE value.t = "bool" -> ok(value)
              [] value.t = "string" ->
                   ok(Leaf("bool", IF ToLower(value.s) = "true"
                                   THEN "true" ELSE "false"))
              [] OTHER ->
                   fail("cannot convert " \o SprintV(value) \o " to boolean")
       [] hint = "NULL" -> ok(Leaf("nil", ""))
       [] hint = "L" ->
            CASE value.t = "[]any" -> ok(value)
              [] value.t = "string" ->
                   IF list.err # Nil
                   THEN fail("cannot parse list: " \o list.err)
                   ELSE ok(list.val)
              [] OTHER -> ok(Node("[]any", "", <<>>, <<value>>))
       [] hint = "M" ->
            CASE value.t = "map" -> processTypeHints(value, rev)
              [] value.t = "string" ->
                   LET mp == Unmarshal(TextOf(value.s), "map")
                   IN IF mp.err # Nil
                      THEN fail("cannot parse map: " \o mp.err)
                      ELSE processTypeHints(mp.val, rev)
              [] OTHER ->
                   fail("cannot convert " \o SprintV(value) \o " to map")
       [] hint = "SS" -> set("__SS", "[]string")
       [] hint = "NS" -> set("__NS", "[]string")
       [] hint = "B" ->
            CASE value.t = "[]byte" -> ok(value)
              [] value.t = "string" -> ok(Leaf("[]byte", value.s))
              [] OTHER -> ok(Leaf("[]byte", SprintV(value)))
       [] hint = "BS" -> set("__BS", "[][]byte")
       [] OTHER -> fail("unknown type hint: " \o typeHint)

RECURSIVE valueToAttr(_)
interfaceToAttributeValue(data) ==
  Node("M", "", data.strs, MapSeq(valueToAttr, data.kids))

valueToAttr(v) ==
  LET marked(marker, type) ==
        /\ marker \in MapKeys(v)
        /\ MapGet(v, marker).t = type
  IN CASE v.t = "string" -> Leaf("S", v.s)
       [] v.t \in {"json.Number", "float64"} -> Leaf("N", v.s)
       [] v.t = "bool" -> Leaf("BOOL", v.s)
       [] v.t = "nil" -> Leaf("NULL", "")
       [] v.t = "[]byte" -> Leaf("B", v.s)
       [] v.t = "[]any" -> Node("L", "", <<>>, MapSeq(valueToAttr, v.kids))
       [] v.t = "map" ->
            IF marked("__SS", "[]string")
            THEN Node("SS", "", MapGet(v, "__SS").strs, <<>>)
            ELSE IF marked("__NS", "[]string")
            THEN Node("NS", "", MapGet(v, "__NS").strs, <<>>)
            ELSE IF marked("__BS", "[][]byte")
            THEN Node("BS", "", MapGet(v, "__BS").strs, <<>>)
            ELSE interfaceToAttributeValue(v)
       [] OTHER -> Leaf("S", SprintV(v))

\* JSONToItem of a JSON text, the maps ranged over in the order rev says:
\* err, or the record.
JSONToItem(j, rev) ==
  LET data == Unmarshal(j, "map")
      processed == processTypeHints(data.val, rev)
  IN IF data.err # Nil
     THEN [err |-> "invalid JSON: " \o data.err, val |-> NoNode]
     ELSE IF processed.err # Nil THEN processed
     ELSE [err |-> Nil, val |-> interfaceToAttributeValue(processed.val)]

\* The codec at rest.
NoCodec ==
  [phase |-> "idle", item |-> NoNode, json |-> NoNode, out |-> NoNode,
   err |-> Nil, arg |-> "", kv |-> ParseKeyValue("")]

\* ------------------------------------------------------------------------
\* The program: the event loop and the tasks in flight
\* ------------------------------------------------------------------------

VARIABLES
  codec,    \* the codec at work on a record or a JSON text (CodecSpec):
            \*   phase  "item": a record to encode; "json": a text to
            \*          decode; "done": decoded; "idle" in the sessions
            \*   item   the record, json the text, out the record decoded,
            \*          err the error of JSONToItem
            \*   arg    in phase "arg" a key=value argument to parse; kv
            \*          the result of ParseKeyValue in phase "parsed"
  m,        \* the Model
  pending,  \* the commands issued whose message has not been applied yet
  quit,     \* tea.Quit was returned: the program has ended
  scn,      \* the session's environment (a name of Environments), fixed
  hist      \* history, read by no handler:
            \*   msg      the task's message the last step applied (NoMsg
            \*            when the last step was a keystroke or a task step)
            \*   pre      the Model that message was applied to (NewModel("")
            \*            when msg is NoMsg)
            \*   tsEntry  m.currentTable when "t" last opened TableSelect,
            \*            or as the table list's load set it since
            \*   everErr  some task's message carried an error
            \*   from     the table of the command whose message last
            \*            replaced the record list ("" before the first)

vars == <<m, pending, quit, scn, hist, codec>>

RemoveAt(seq, i) == SubSeq(seq, 1, i - 1) \o SubSeq(seq, i + 1, Len(seq))

\* The commands in flight after Update returned cmd.
Issue(rest, cmd) == IF IsTask(cmd) THEN Append(rest, cmd) ELSE rest

\* The environments of a session: what the user does in it and what the
\* backend, the editor and the file system answer.
Environments ==
  [move |->
     [keys |-> {"up", "k", "down", "j", "g", "G", "enter", "esc", "q", "?",
                "t", "x", "ctrl+c"},
      texts |-> {},
      fs |-> {"ok"},
      tables |-> {<<>>, <<T1, T2>>},
      lists |-> {<<>>, <<"B", "C">>, <<"A", "B", "C">>},
      errors |-> {},
      edits |-> {},
      requested |-> {"", "t2", "nosuch"}],
   delete |->
     [keys |-> {"down", "j", " ", "d", "y", "Y", "n", "N", "esc", "x"},
      texts |-> {},
      fs |-> {"ok"},
      tables |-> {<<T1, T2>>},
      lists |-> {<<"B">>, <<"A", "B">>},
      errors |-> {},
      edits |-> {},
      requested |-> {""}],
   faults |->
     [keys |-> {"down", " ", "d", "y"},
      texts |-> {},
      fs |-> {"ok"},
      tables |-> {<<T1, T2>>},
      lists |-> {<<"A", "B">>},
      errors |-> {Err50},
      edits |-> {},
      requested |-> {""}],
   edit |->
     [keys |-> {"/", "enter", "esc"},
      texts |-> {"update A"},
      fs |-> {"ok"},
      tables |-> {<<T1, T2>>},
      lists |-> {<<"A", "B">>},
      errors |-> {Err51},
      edits |-> {},
      requested |-> {""}],
   select |->
     [keys |-> {"j", " ", "/", "enter"},
      texts |-> {"update A"},
      fs |-> {"createFails"},
      tables |-> {<<T1, T2>>},
      lists |-> {<<"A", "B">>},
      errors |-> {},
      edits |-> {},
      requested |-> {""}],
   query |->
     [keys |-> {"/"},
      texts |-> {"query byDate pk=foo", "query pk=foo", "query a=b pk=foo",
                 "query byDate"},
      fs |-> {"ok"},
      tables |-> {<<T1, T2>>},
      lists |-> {<<"A">>},
      errors |-> {},
      edits |-> {},
      requested |-> {""}],
   put |->
     [keys |-> {"i", "e"},
      texts |-> {},
      fs |-> {"ok"},
      tables |-> {<<T1, T2>>},
      lists |-> {<<"A">>},
      errors |-> {},
      edits |-> {},
      requested |-> {""}],
   key |->
     [keys |-> {"/"},
      texts |-> {"get A", "get A 1", "update A", "rm A 1", "delete A"},
      fs |-> {"createFails"},
      tables |-> {<<T1, T2>>},
      lists |-> {<<"A">>},
      errors |-> {},
      edits |-> {},
      requested |-> {"", "t2"}],
   tables |->
     [keys |-> {"t", "j", "esc", "enter", "d", "y"},
      texts |-> {},
      fs |-> {"ok"},
      tables |-> {<<T1, T2>>},
      lists |-> {<<"A">>},
      errors |-> {Err50},
      edits |-> {},
      requested |-> {""}],
   editor |->
     [keys |-> {"e", "esc"},
      texts |-> {},
      fs |-> {"ok", "createFails", "writeFails"},
      tables |-> {<<T1, T2>>},
      lists |-> {<<"A">>},
      errors |-> {Err50},
      edits |-> {"{"},
      requested |-> {""}],
   command |->
     [keys |-> {":", "/", "enter", "esc", "q", "d"},
      texts |-> {"err", "rm", "q", LongVerb},
      fs |-> {"ok"},
      tables |-> {<<T1, T2>>},
      lists |-> {<<"A">>},
      errors |-> {Err51},
      edits |-> {},
      requested |-> {""}]]

\* NewModel, and Init's command.
Start(names) ==
  /\ scn \in names
  /\ m \in {NewModel(t) : t \in Environments[scn].requested}
  /\ pending = <<loadTables>>
  /\ quit = FALSE
  /\ hist = [msg |-> NoMsg, pre |-> NewModel(""), tsEntry |-> 0,
             everErr |-> FALSE, from |-> ""]
  /\ codec = NoCodec

\* The event loop is inside tea.ExecProcess: it handles no message until
\* the editor exits.
Blocked ==
  \E i \in 1..Len(pending) :
    pending[i].kind = "editor" /\ pending[i].phase = "running"

\* os.CreateTemp makes up a name no file has.  Of the names that no file in
\* the directory has and that no editor was started on whose outcome is still
\* to come, it is given the least here.
CreateTemp(outcome) ==
  LET used == FileNames(m.tmpFiles)
                \cup {pending[i].file : i \in 1..Len(pending)}
  IN [outcome |-> outcome,
      name |-> CHOOSE n \in 1..(Cardinality(used) + 1) :
                 n \notin used /\ \A k \in 1..(n - 1) : k \in used]

\* The event loop hands a key to Update.
Key(key, fs) ==
  LET r == Update(m, KeyMsg(key), CreateTemp(fs))
  IN /\ ~quit
     /\ ~Blocked
     /\ IsTask(r.cmd) => Len(pending) < MaxPending
     /\ Cardinality(r.m.tmpFiles) <= MaxTmpFiles
     /\ m' = r.m
     /\ pending' = Issue(pending, r.cmd)
     /\ quit' = (r.cmd.kind = "quit")
     /\ hist' = [hist EXCEPT
                   !.msg = NoMsg,
                   !.pre = NewModel(""),
                   !.tsEntry = IF m.mode = ModeNormal /\ key = "t"
                               THEN m.currentTable ELSE hist.tsEntry]
     /\ UNCHANGED <<scn, codec>>

\* A key outside Command mode.
KeyPress(key, fs) ==
  /\ m.mode # ModeCommand
  /\ Key(key, fs)

\* Text typed in Command mode: the command is typed in one piece, after the
\* ":" or "/" that opened the command line.
TypeText(text) ==
  /\ m.mode = ModeCommand
  /\ m.input \in {":", "/"}
  /\ Key(text, "ok")

\* Esc or Enter in Command mode.
CommandKey(key, fs) ==
  /\ m.mode = ModeCommand
  /\ Key(key, fs)

\* One round of the loop of a batch delete, in the task's goroutine: it
\* reads m.items as they are now.
BatchDeleteStep(i, idx, err) ==
  /\ ~quit
  /\ i \in 1..Len(pending)
  /\ LET cmd == pending[i]
     IN /\ cmd.kind = "batchDelete"
        /\ cmd.failed = Nil
        /\ idx \in cmd.todo
        /\ pending' =
             [pending EXCEPT ![i] =
                IF idx >= Len(m.items)
                THEN [cmd EXCEPT !.todo = cmd.todo \ {idx}]
                ELSE IF err # Nil THEN [cmd EXCEPT !.failed = err]
                ELSE [cmd EXCEPT
                        !.todo = cmd.todo \ {idx},
                        !.count = cmd.count + 1,
                        !.deleted = cmd.deleted \cup {m.items[idx + 1]}]]
  /\ hist' = [hist EXCEPT !.msg = NoMsg, !.pre = NewModel("")]
  /\ UNCHANGED <<m, quit, scn, codec>>

\* The event loop starts the editor of a queued edit and waits; the editor
\* exits, having left content in its file or failed with runErr, and the
\* callback runs.
ExecProcess(i, content, runErr, readErr) ==
  /\ ~quit
  /\ i \in 1..Len(pending)
  /\ pending[i].kind = "editor"
  /\ \/ /\ pending[i].phase = "queued"
        /\ ~Blocked
        /\ pending' = [pending EXCEPT ![i].phase = "running"]
        /\ m' = m
     \/ /\ pending[i].phase = "running"
        /\ LET r == editorCallback(
                      runEditor(m, pending[i], content, runErr),
                      pending[i], runErr, readErr)
           IN /\ m' = r.m
              /\ pending' = [pending EXCEPT ![i] =
                              [r.cmd EXCEPT
                                 !.left = IF runErr = Nil THEN content
                                          ELSE ""]]
  /\ hist' = [hist EXCEPT !.msg = NoMsg, !.pre = NewModel("")]
  /\ UNCHANGED <<quit, scn, codec>>

\* Update assigns m.items on this message.
ReplacesItems(msg) ==
  /\ msg.err = Nil
  /\ \/ msg.type = "itemsLoaded"
     \/ msg.type = "itemFetchedForEdit" /\ msg.item # Nil

\* A task ends and the event loop applies its message.
Deliver(i, msg, fs) ==
  LET r == Update(m, msg, CreateTemp(fs))
  IN /\ ~quit
     /\ ~Blocked
     /\ i \in 1..Len(pending)
     /\ Cardinality(r.m.tmpFiles) <= MaxTmpFiles
     /\ m' = r.m
     /\ pending' = Issue(RemoveAt(pending, i), r.cmd)
     /\ quit' = (r.cmd.kind = "quit")
     /\ hist' = [hist EXCEPT
                   !.msg = msg, !.pre = m,
                   !.tsEntry = IF msg.type = "tablesLoaded"
                               THEN r.m.currentTable ELSE hist.tsEntry,
                   !.everErr = hist.everErr \/ msg.err # Nil,
                   !.from = IF ReplacesItems(msg)
                            THEN pending[i].table ELSE hist.from]
     /\ UNCHANGED <<scn, codec>>

\* The environment of this session.
Env == Environments[scn]

\* ------------------------------------------------------------------------
\* Spec: sessions of browsing, selecting and deleting records, and sessions
\* of typed commands against a failing backend
\* ------------------------------------------------------------------------

Init == Start(DOMAIN Environments)

\* The steps of the program (Env.keys: the keys pressed outside the command
\* line; Env.texts: the texts typed on it; Env.fs: the outcomes of creating
\* and writing the editor's file).
Next ==
  \/ \E key \in Env.keys, fs \in Env.fs : KeyPress(key, fs)
  \/ \E text \in Env.texts : TypeText(text)
  \/ \E key \in {"esc", "enter"}, fs \in Env.fs : CommandKey(key, fs)
  \/ \E i \in 1..Len(pending), idx \in 0..2, err \in {Nil} \cup Env.errors :
       BatchDeleteStep(i, idx, err)
  \/ \E i \in 1..Len(pending), err \in {Nil} \cup Env.errors,
          at \in {"run", "read"} :
       \E content \in {pending[i].orig} \cup Env.edits :
         ExecProcess(i, content,
                     IF at = "run" THEN err ELSE Nil,
                     IF at = "read" THEN err ELSE Nil)
  \/ \E i \in 1..Len(pending), fs \in Env.fs :
       \E msg \in Results(pending[i], Env) : Deliver(i, msg, fs)

Spec == Init /\ [][Next]_vars

\* ------------------------------------------------------------------------
\* PageSpec: the page loops of Scan, Query and ListTables, one backend call
\* at a time, against backends that answer in pages
\* ------------------------------------------------------------------------

\* The seconds of loadItems' context.WithTimeout.
Deadline == 2

\* The backends: the pages of records a Scan or a Query of a table is
\* answered with and the pages of names ListTables is answered with; an
\* endless backend gives a continuation cursor with every response, and
\* its pages over again.  texts: what the user types on the command line.
Backends ==
  [three |->
     [pages |-> <<<<"A", "B">>, <<"C", "D">>, <<"E", "F">>>>,
      tablePages |-> <<<<"t1">>, <<"t2">>>>,
      endless |-> FALSE,
      texts |-> {"scan"}],
   two |->
     [pages |-> <<<<"A", "B">>, <<>>>>,
      tablePages |-> <<<<"t1", "t2">>>>,
      endless |-> FALSE,
      texts |-> {"query pk=1"}],
   one |->
     [pages |-> <<<<"A">>>>,
      tablePages |-> <<<<"t2">>, <<>>, <<"t1">>>>,
      endless |-> FALSE,
      texts |-> {"scan", "query pk=1"}],
   endless |->
     [pages |-> <<<<"A">>>>,
      tablePages |-> <<<<"t1">>>>,
      endless |-> TRUE,
      texts |-> {"scan", "query pk=1"}]]

\* The backend of this session.
Backend == Backends[scn]

\* The commands with a page loop.
Paged == {"scan", "query", "loadTables"}

\* The pages a backend answers the loop of cmd with.
PagesFor(cmd, B) == IF cmd.kind = "loadTables" THEN B.tablePages ELSE B.pages

\* The response to a call with the cursor lastKey: the page after the one
\* the cursor came with, and a cursor unless the page is the last.
Response(pages, endless, lastKey) ==
  [items |-> pages[(lastKey % Len(pages)) + 1],
   lastKey |-> IF endless \/ lastKey + 1 < Len(pages) THEN lastKey + 1 ELSE 0,
   err |-> Nil]

\* The error a call ends with.
Failure(err) == [items |-> <<>>, lastKey |-> 0, err |-> err]

\* fmt.Errorf of the loop that failed.
PageError(kind, err) ==
  (CASE kind = "scan" -> "scan failed: "
     [] kind = "query" -> "query failed: "
     [] OTHER -> "failed to list tables: ") \o err

\* pageLoop without the append of a page that comes with a cursor.
pageLoopKeepsLastPage(cmd, out) ==
  IF out.err # Nil
  THEN [cmd EXCEPT
          !.calls = @ + 1, !.got = <<>>,
          !.failed = PageError(cmd.kind, out.err), !.phase = "returned"]
  ELSE IF out.lastKey = 0
  THEN [cmd EXCEPT
          !.calls = @ + 1, !.got = @ \o out.items, !.phase = "returned"]
  ELSE [cmd EXCEPT !.calls = @ + 1, !.lastKey = out.lastKey]

\* One round of the for loop of Scan, Query and ListTables, the call
\* answered with out: an error returns nil and the error; a page is
\* appended, and the loop returns when it came without a cursor.
pageLoop(cmd, out) ==
  IF out.err # Nil
  THEN [cmd EXCEPT
          !.calls = @ + 1, !.got = <<>>,
          !.failed = PageError(cmd.kind, out.err), !.phase = "returned"]
  ELSE IF out.lastKey = 0
  THEN [cmd EXCEPT
          !.calls = @ + 1, !.got = @ \o out.items, !.phase = "returned"]
  ELSE [cmd EXCEPT
          !.calls = @ + 1, !.got = @ \o out.items, !.lastKey = out.lastKey]

\* DescribeTable of a table of the backend.
DescribeTable(name) == IF name = "t1" THEN T1 ELSE T2

\* The message of a page loop that has returned: loadItems and the closure
\* of executeQuery send the records and the error as they got them,
\* loadTables describes the tables listed.
PagedMsg(cmd) ==
  IF cmd.kind = "loadTables"
  THEN IF cmd.failed # Nil THEN tablesLoadedMsg(<<>>, cmd.failed)
       ELSE tablesLoadedMsg(
              [n \in 1..Len(cmd.got) |-> DescribeTable(cmd.got[n])], Nil)
  ELSE itemsLoadedMsg(cmd.got, cmd.failed, FALSE)

\* The context of the command is past its deadline: loadItems gives its
\* Scan a context with a timeout, the closure of executeQuery and loadTables
\* give context.Background().
Expired(cmd) == cmd.kind = "scan" /\ cmd.elapsed >= Deadline

\* NewModel, and Init's command, against a paging backend.
PageInit ==
  /\ scn \in DOMAIN Backends
  /\ m = NewModel("")
  /\ pending = <<loadTables>>
  /\ quit = FALSE
  /\ hist = [msg |-> NoMsg, pre |-> NewModel(""), tsEntry |-> 0,
             everErr |-> FALSE, from |-> ""]
  /\ codec = NoCodec

\* A second passes for a page loop that has not returned.
Tick(i) ==
  /\ i \in 1..Len(pending)
  /\ pending[i].kind \in Paged
  /\ pending[i].phase # "returned"
  /\ pending[i].elapsed < Deadline
  /\ pending' = [pending EXCEPT ![i].elapsed = @ + 1]
  /\ hist' = [hist EXCEPT !.msg = NoMsg, !.pre = NewModel("")]
  /\ UNCHANGED <<m, quit, scn, codec>>

\* One backend call of a page loop, in the task's goroutine: it fails when
\* the context is past its deadline, or with err; else the backend answers
\* with the page after the cursor.
PageCall(i, err) ==
  /\ i \in 1..Len(pending)
  /\ LET cmd == pending[i]
         out == IF Expired(cmd) THEN Failure("context deadline exceeded")
                ELSE IF err # Nil THEN Failure(err)
                ELSE Response(PagesFor(cmd, Backend), Backend.endless,
                              cmd.lastKey)
     IN /\ cmd.kind \in Paged
        /\ cmd.phase # "returned"
        /\ cmd.calls < MaxCalls
        /\ pending' =
             [pending EXCEPT ![i] =
                [pageLoop(cmd, out) EXCEPT
                   !.late = @ \/ (out.err = Nil /\ cmd.elapsed >= Deadline)]]
  /\ hist' = [hist EXCEPT !.msg = NoMsg, !.pre = NewModel("")]
  /\ UNCHANGED <<m, quit, scn, codec>>

\* A page loop has returned and the event loop applies its message.
DeliverPaged(i) ==
  /\ i \in 1..Len(pending)
  /\ pending[i].kind \in Paged
  /\ pending[i].phase = "returned"
  /\ Deliver(i, PagedMsg(pending[i]), "ok")

\* The steps of the program against a paging backend.
PageNext ==
  \/ \E key \in {"/", "esc"} : KeyPress(key, "ok")
  \/ \E text \in Backend.texts : TypeText(text)
  \/ \E key \in {"enter"} : CommandKey(key, "ok")
  \/ \E i \in 1..Len(pending) : Tick(i)
  \/ \E i \in 1..Len(pending), err \in {Nil, Err50} : PageCall(i, err)
  \/ \E i \in 1..Len(pending) : DeliverPaged(i)

PageSpec == PageInit /\ [][PageNext]_vars

\* ------------------------------------------------------------------------
\* The codec on its own: records encoded and decoded, JSON texts decoded
\* ------------------------------------------------------------------------

\* A record of the attributes named, and the JSON object of them.
Record(names, values) == Node("M", "", names, values)

Object(names, values) == Node("jobject", "", names, values)

\* One value of each type of attribute.
Scalars ==
  {Leaf("S", "x"), Leaf("S", "5"), Leaf("N", "5"), Leaf("N", "1.5"),
   Leaf("BOOL", "true"), Leaf("NULL", ""), Leaf("B", "hi"),
   Node("SS", "", <<"x", "y">>, <<>>), Node("NS", "", <<"1", "2">>, <<>>),
   Node("BS", "", <<"hi", "a">>, <<>>)}

\* The lists and the maps of one value, and the empty ones.
Nested ==
  {Node("L", "", <<>>, <<>>), Record(<<>>, <<>>)}
    \cup {Node("L", "", <<>>, <<v>>) : v \in Scalars}
    \cup {Record(<<"b">>, <<v>>) : v \in Scalars}

\* The records to encode: the key pk and one attribute, of every shape, and
\* a record whose attribute has a name that reads as a hint.
Items ==
  {Record(<<"pk", "a">>, <<Leaf("S", "k1"), v>>) : v \in Scalars \cup Nested}
    \cup {Record(<<"pk", "a">>,
                 <<Leaf("S", "k1"),
                   Node("L", "", <<>>, <<Record(<<"b">>, <<Leaf("N", "5")>>)>>)>>),
          Record(<<"pk", "a<N>">>, <<Leaf("S", "k1"), Leaf("S", "5")>>)}

\* The hints written on a name: the supported ones, two of them in other
\* case, and one that is not supported.
Hints ==
  {"S", "N", "BOOL", "NULL", "L", "M", "SS", "NS", "B", "BS", "n", "Bool",
   "ZZZ"}

\* The JSON values written under a name.
JSONValues ==
  {Leaf("jstring", "5"), Leaf("jstring", "[1]"), Leaf("jstring", "{}"),
   Leaf("jstring", "yes"), Leaf("jstring", "True"), Leaf("jstring", "false"),
   Leaf("jnumber", "1"), Leaf("jnumber", "1.50"),
   Leaf("jbool", "true"), Leaf("jnull", ""),
   Node("jarray", "", <<>>, <<Leaf("jstring", "a"), Leaf("jnumber", "1")>>),
   Object(<<"b<N>">>, <<Leaf("jstring", "5")>>)}

\* {"age<N>": "5"} and {"x<ZZZ>": 1}
AgeDoc == Object(<<"age<N>">>, <<Leaf("jstring", "5")>>)

ZZZDoc == Object(<<"x<ZZZ>">>, <<Leaf("jnumber", "1")>>)

\* The JSON texts to decode: one attribute with every hint over every
\* value, and texts with hints below the top, names that meet once the
\* hint is off, a name twice, a name of two hints, and texts that are no
\* JSON object.
Docs ==
  {Object(<<"age<" \o h \o ">">>, <<v>>) : h \in Hints, v \in JSONValues}
    \cup {AgeDoc, ZZZDoc,
          Object(<<"age">>, <<Leaf("jstring", "5")>>),
          Object(<<"a">>, <<Object(<<"b<N>">>, <<Leaf("jstring", "5")>>)>>),
          Object(<<"a">>,
                 <<Node("jarray", "", <<>>,
                        <<Object(<<"b<N>">>, <<Leaf("jstring", "5")>>)>>)>>),
          Object(<<"a<L>">>,
                 <<Node("jarray", "", <<>>,
                        <<Object(<<"b<N>">>, <<Leaf("jstring", "5")>>)>>)>>),
          Object(<<"a">>, <<ZZZDoc>>),
          Object(<<"a<M>">>, <<ZZZDoc>>),
          Object(<<"age", "age<N>">>,
                 <<Leaf("jstring", "x"), Leaf("jstring", "5")>>),
          Object(<<"age<S>", "age<N>">>,
                 <<Leaf("jnumber", "1"), Leaf("jstring", "5")>>),
          Object(<<"a", "a">>, <<Leaf("jnumber", "1"), Leaf("jnumber", "2")>>),
          Object(<<"age<N>", "ok<BOOL>">>,
                 <<Leaf("jstring", "5"), Leaf("jbool", "true")>>),
          Object(<<"x<N><S>">>, <<Leaf("jnumber", "1")>>),
          Node("jarray", "", <<>>, <<Leaf("jnumber", "1")>>),
          Leaf("jinvalid", "{")}

\* The key=value arguments to parse: numbers, words, quoted texts, texts
\* that start as a number, blanks around the parts, and arguments with no
\* "=" or with two.
KeyValues ==
  {"age=42", "name=bob", "name=\"42\"", "name=\"bob\"", "age", "", "=",
   "age=", "=42", "a=b=c", "a=1=2", " age = 42 ", "age= bob", "n=-1.5",
   "n=+7", "n=.5", "n=5.", "n=1e5", "n=1E-2", "n=1e", "n=1p3", "n=-", "n=.",
   "n=42abc", "n=4 2", "n=7\"", "n=nan", "n=NaN", "n=-inf", "n=Inf",
   "n=infinity", "n=na", "n=e5", "n=1.2.3", "n=0"}

\* A record to encode, a JSON text to decode or a key=value argument to
\* parse; the session is at rest.
CodecInit ==
  /\ \/ \E item \in Items :
          codec = [NoCodec EXCEPT !.phase = "item", !.item = item]
     \/ \E json \in Docs :
          codec = [NoCodec EXCEPT !.phase = "json", !.json = json]
     \/ \E arg \in KeyValues :
          codec = [NoCodec EXCEPT !.phase = "arg", !.arg = arg]
  /\ scn = "codec"
  /\ m = NewModel("")
  /\ pending = <<>>
  /\ quit = FALSE
  /\ hist = [msg |-> NoMsg, pre |-> NewModel(""), tsEntry |-> 0,
             everErr |-> FALSE, from |-> ""]

\* ItemToJSON (and ItemToPrettyJSON, the same text indented) of the record.
Encode ==
  /\ codec.phase = "item"
  /\ codec' = [codec EXCEPT !.phase = "json", !.json = ItemToJSON(codec.item)]
  /\ UNCHANGED <<m, pending, quit, scn, hist>>

\* JSONToItem of the text, the maps ranged over in the order rev says.
Decode(rev) ==
  /\ codec.phase = "json"
  /\ LET r == JSONToItem(codec.json, rev)
     IN codec' = [codec EXCEPT !.phase = "done", !.out = r.val,
                               !.err = r.err]
  /\ UNCHANGED <<m, pending, quit, scn, hist>>

\* ParseKeyValue of the argument.
Parse ==
  /\ codec.phase = "arg"
  /\ codec' = [codec EXCEPT !.phase = "parsed",
                            !.kv = ParseKeyValue(codec.arg)]
  /\ UNCHANGED <<m, pending, quit, scn, hist>>

CodecNext ==
  \/ Encode
  \/ \E rev \in BOOLEAN : Decode(rev)
  \/ Parse

CodecSpec == CodecInit /\ [][CodecNext]_vars

\* ------------------------------------------------------------------------
\* Properties
\* ------------------------------------------------------------------------

\* The editors whose callback has run and whose outcome is on its way to
\* the event loop.
ExitedEditors ==
  {i \in 1..Len(pending) :
     pending[i].kind = "editor" /\ pending[i].phase = "exited"}

\* The editors that have not exited.
OpenEditors ==
  {i \in 1..Len(pending) :
     pending[i].kind = "editor" /\ pending[i].phase \in {"queued", "running"}}

\* No openEditor ran between the openEditor of editor i and its callback:
\* the callback acted on the file openEditor made for it.
SingleWorkflow(i) == pending[i].removed = pending[i].file

\* The commands in flight other than editors.
Operations == {i \in 1..Len(pending) : pending[i].kind # "editor"}

\* Command lines that are in error: an unknown verb (short, and long), a
\* verb without its arguments, a key condition without "=".
CommandErrorLines ==
  {"/nosuch", ":w", "/query", "/get", "/update", "/query bydate",
   "/" \o LongVerb}

\* The keys of Normal mode.
NormalKeys ==
  {"ctrl+c", "q", ":", "/", "up", "k", "down", "j", "enter", " ", "e", "d",
   "t", "i", "a", "?", "esc", "g", "G", "x"}

\* C1: in every reachable state every index in the selection is smaller
\* than the number of loaded records.
SelectionWithinRecords == \A i \in m.selected : i < Len(m.items)

\* C2: in every reachable state the cursor is in [0, len(records)) when
\* there are records, and 0 when there are none.
CursorWithinRecords ==
  IF Len(m.items) > 0
  THEN m.cursor >= 0 /\ m.cursor < Len(m.items)
  ELSE m.cursor = 0

\* C2's case: the cursor was moved to the last of three records.
CursorOnLastRecord ==
  Len(m.items) = 3 /\ m.cursor = 2 /\ m.mode = ModeNormal

\* C3: Esc in TableSelect returns to Normal with the active table as it
\* was when TableSelect was entered, and issues no operation.
TableSelectCancelRestores ==
  m.mode = ModeTableSelect =>
    LET r == handleKeyPress(m, "esc", CreateTemp("ok"))
    IN /\ r.m.mode = ModeNormal
       /\ r.m.currentTable = hist.tsEntry
       /\ r.cmd = NoCmd

\* C4: a confirmed batch delete deletes no record other than those that were
\* at the selected indices (or under the cursor) when it was confirmed, and
\* when it ends without error it has deleted exactly those.
BatchDeletesConfirmedRecords ==
  \A i \in 1..Len(pending) :
    pending[i].kind = "batchDelete" =>
      /\ pending[i].deleted \subseteq pending[i].atConfirm
      /\ (pending[i].todo = {} /\ pending[i].failed = Nil
            => pending[i].deleted = pending[i].atConfirm)

\* C5: in Normal mode with no chord under way, d then d opens ConfirmDelete
\* and d then any other key does not.
DeleteChord ==
  m.mode = ModeNormal /\ m.keyBuffer # "d" =>
    LET d1 == handleKeyPress(m, "d", CreateTemp("ok")).m
    IN /\ handleKeyPress(d1, "d", CreateTemp("ok")).m.mode = ModeConfirmDelete
       /\ \A key \in NormalKeys \ {"d"} :
            handleKeyPress(d1, key, CreateTemp("ok")).m.mode # ModeConfirmDelete

\* C6: a successful items-loaded message, in whatever mode it is applied,
\* replaces the records with the message's, sets the cursor to 0, empties
\* the selection and leaves the mode as it was.  (The first conjunct is
\* about the message the last step applied; the second applies the message
\* to the present state put in each of the seven modes.)
ItemsLoadedInAnyMode ==
  /\ hist.msg.type = "itemsLoaded" /\ hist.msg.err = Nil =>
       /\ m.items = hist.msg.items
       /\ m.cursor = 0
       /\ m.selected = {}
       /\ m.mode = hist.pre.mode
  /\ \A mode \in Modes, l \in Env.lists :
       LET r == Update([m EXCEPT !.mode = mode],
                       itemsLoadedMsg(l, Nil, FALSE), CreateTemp("ok"))
       IN /\ r.m.items = l
          /\ r.m.cursor = 0
          /\ r.m.selected = {}
          /\ r.m.mode = mode
          /\ r.cmd = NoCmd

\* C6's case: records arrived while a delete awaited confirmation, with the
\* cursor on the second record and a selection; the confirmation still
\* waits, over the new records.
ItemsLoadedDuringConfirm ==
  /\ hist.msg.type = "itemsLoaded"
  /\ hist.msg.err = Nil
  /\ hist.msg.items # <<>>
  /\ hist.pre.mode = ModeConfirmDelete
  /\ hist.pre.cursor = 1
  /\ hist.pre.selected # {}
  /\ m.mode = ModeConfirmDelete
  /\ m.cursor = 0
  /\ m.selected = {}

\* C7: at most one operation is in flight.
OneOperationInFlight == Cardinality(Operations) <= 1

\* C8: when a message with an error has been applied: if the error text is
\* longer than 50 characters the mode is ErrorView, the view holds the text
\* and the status its first 47 characters and the marker; otherwise the
\* mode is unchanged and the status is the text.
ErrorResultShown ==
  hist.msg.type # "none" /\ hist.msg.err # Nil =>
    IF Len(hist.msg.err) > ErrViewThreshold
    THEN /\ m.mode = ModeErrorView
         /\ m.viewContent = hist.msg.err
         /\ m.status = SubSeq(hist.msg.err, 1, ErrStatusKeep) \o "... (/err)"
    ELSE /\ m.mode = hist.pre.mode
         /\ m.status = hist.msg.err

\* C9: after a message with an error has been applied, /err shows that
\* error's text in ErrorView; and /err says "No errors" only if no message
\* has carried an error.
LastErrorRecalled ==
  LET r == executeCommand(m, "/err", CreateTemp("ok"))
  IN /\ hist.msg.type # "none" /\ hist.msg.err # Nil =>
          r.m.mode = ModeErrorView /\ r.m.viewContent = hist.msg.err
     /\ r.m.mode # ModeErrorView => ~hist.everErr

\* C10: entering a command line that is in error leaves the mode Normal.
CommandErrorKeepsMode ==
  m.mode = ModeCommand =>
    \A line \in CommandErrorLines :
      LET r == handleKeyPress([m EXCEPT !.input = line], "enter", CreateTemp("ok"))
      IN r.m.mode = ModeNormal /\ r.cmd = NoCmd

\* C11: in an edit workflow that no other one interleaves with, the file
\* openEditor created is gone when the outcome of the editor is on its way
\* to the event loop, whether the editor failed, the file could not be read
\* or its text was read; and a file openEditor created and could not write
\* is gone when openEditor returns: the file m.editTmpFile names exists only
\* while an editor that was started on it has not exited.
TempFileRemoved ==
  /\ \A i \in ExitedEditors :
       SingleWorkflow(i) => pending[i].file \notin FileNames(m.tmpFiles)
  /\ m.editTmpFile \in FileNames(m.tmpFiles)
       => \E i \in OpenEditors : pending[i].file = m.editTmpFile

\* C11 witness: the outcomes of two workflows, one after the other, are on
\* their way, one of an editor that failed or whose file could not be read,
\* one with the text the user left in the file; they had a file each.
TempFileRemovedAfterEdit ==
  \E i, j \in ExitedEditors :
    /\ SingleWorkflow(i) /\ SingleWorkflow(j)
    /\ pending[i].file # pending[j].file
    /\ pending[i].failed # Nil
    /\ pending[j].failed = Nil /\ pending[j].content # pending[j].orig

\* The errors JSONToItem gives for the texts the user leaves in the editor.
CodecErrors == {JSONToItemErr(content) : content \in Env.edits} \ {Nil}

\* C12: when the save of an edited record has failed with a codec error,
\* the edited text is not lost: a temporary file still holds the text that
\* JSONToItem rejected.
EditedTextKeptOnCodecError ==
  (hist.msg.type = "operationDone" /\ hist.msg.err \in CodecErrors)
    => \E f \in m.tmpFiles : JSONToItemErr(f[2]) = hist.msg.err

\* Every key of the sessions, with the keys of the command line.
AllKeys ==
  UNION {Environments[s].keys : s \in DOMAIN Environments}
    \cup {"esc", "enter", "ctrl+c", "q"}

\* The command lines executeCommand quits on.
QuitLines == {":q", ":quit", "/q", "\\q"}

\* An explicit quit request: ctrl+c in Normal mode, or Enter on a quit
\* command line.
IsQuitRequest(model, key) ==
  \/ model.mode = ModeNormal /\ key = "ctrl+c"
  \/ /\ model.mode \in {ModeCommand, ModeNormal}
     /\ key = "enter"
     /\ TrimSpace(model.input) \in QuitLines

\* C13: no message of a background task makes the event loop quit, with an
\* error or without; a key makes it quit only as an explicit quit request;
\* and when the loop has quit, its last step was a key and no message.
QuitOnlyOnRequest ==
  /\ \A i \in 1..Len(pending) : \A msg \in Results(pending[i], Env) :
       Update(m, msg, CreateTemp("ok")).cmd.kind # "quit"
  /\ \A key \in AllKeys :
       Update(m, KeyMsg(key), CreateTemp("ok")).cmd.kind = "quit"
         => IsQuitRequest(m, key)
  /\ quit => hist.msg = NoMsg

\* C13 witness: the loop has quit on a request, after messages with an
\* error were applied and the last of them was kept for recall.
QuitAfterError ==
  quit /\ hist.everErr /\ m.lastError # "" /\ hist.msg = NoMsg

\* C14: in every mode a quit request can be made: outside Command mode,
\* where a quit line can be typed and entered, some key makes Update return
\* tea.Quit.
QuitFromEveryMode ==
  \/ m.mode = ModeCommand
  \/ \E key \in AllKeys :
       Update(m, KeyMsg(key), CreateTemp("ok")).cmd.kind = "quit"

\* The first n pages of a backend, an endless one giving its pages over
\* again, one after the other.
RECURSIVE FirstPages(_, _)
FirstPages(pages, n) ==
  IF n = 0 THEN <<>>
  ELSE FirstPages(pages, n - 1) \o pages[((n - 1) % Len(pages)) + 1]

\* All the pages of a backend that ends.
AllPages(pages) == FirstPages(pages, Len(pages))

\* The names of the tables of the Model.
TableNames(model) == [n \in 1..Len(model.tables) |-> model.tables[n].Name]

\* C15: the loops of Scan, Query and ListTables call the backend once per
\* page, each call with the cursor of the response before: a loop that has
\* made n calls without an error and not returned holds the first n pages
\* in order and the cursor of the n-th, and more pages are to come; a loop
\* that has returned without an error has made as many calls as the backend
\* has pages and holds them all in order.  The result arrives as one
\* message: the record list and the table list of the session are empty or
\* all the pages, never some of them.
PagesConcatenated ==
  /\ \A i \in 1..Len(pending) :
       LET cmd == pending[i]
           pages == PagesFor(cmd, Backend)
       IN (cmd.kind \in Paged /\ cmd.failed = Nil) =>
            /\ cmd.got = FirstPages(pages, cmd.calls)
            /\ cmd.phase # "returned" =>
                 /\ cmd.lastKey = cmd.calls
                 /\ Backend.endless \/ cmd.calls < Len(pages)
            /\ cmd.phase = "returned" =>
                 ~Backend.endless /\ cmd.calls = Len(pages)
  /\ ~Backend.endless =>
       /\ m.items \in {<<>>, AllPages(Backend.pages)}
       /\ TableNames(m) \in {<<>>, AllPages(Backend.tablePages)}

\* C15 witness: three pages of two records have arrived as one message of
\* six records, and a loop started after it has made its three calls and
\* returned the six records again.
SixRecordsFromThreePages ==
  /\ Len(Backend.pages) = 3
  /\ Len(m.items) = 6
  /\ \E i \in 1..Len(pending) :
       /\ pending[i].kind = "scan"
       /\ pending[i].phase = "returned"
       /\ pending[i].calls = 3
       /\ pending[i].got = m.items

\* C16: every listing of records, by Scan or by Query, runs under the
\* deadline: no page arrives once the seconds of the deadline have passed,
\* the call fails instead and the loop returns; and when a listing has
\* failed, the record list of the session is as it was before the message.
ListingUnderDeadline ==
  /\ \A i \in 1..Len(pending) :
       pending[i].kind \in {"scan", "query"} => ~pending[i].late
  /\ (hist.msg.type = "itemsLoaded" /\ hist.msg.err # Nil)
       => m.items = hist.pre.items

\* The members of a set, the elements of a sequence.
Members(seq) == {seq[i] : i \in 1..Len(seq)}

\* Two records, or two values, are equal: the same type and the same
\* content, the members of a set and the attributes of a map in any order.
RECURSIVE Same(_, _)
Same(a, b) ==
  /\ a.t = b.t
  /\ CASE a.t \in {"S", "N", "BOOL", "B"} -> a.s = b.s
       [] a.t \in {"SS", "NS", "BS"} ->
            /\ Len(a.strs) = Len(b.strs)
            /\ Members(a.strs) = Members(b.strs)
       [] a.t = "L" ->
            /\ Len(a.kids) = Len(b.kids)
            /\ \A i \in 1..Len(a.kids) : Same(a.kids[i], b.kids[i])
       [] a.t = "M" ->
            /\ Len(a.strs) = Len(b.strs)
            /\ MapKeys(a) = MapKeys(b)
            /\ \A k \in MapKeys(a) : Same(MapGet(a, k), MapGet(b, k))
       [] OTHER -> TRUE

\* C17: once the JSON text that encoding a record has produced is decoded,
\* decoding has succeeded and the record decoded equals the record encoded,
\* whatever the shapes of its values (String, Number, Boolean, Null, List,
\* Map, the three sets, Binary), the members of a set in any order.
RoundTrip ==
  (codec.phase = "done" /\ codec.item # NoNode) =>
    (codec.err = Nil /\ Same(codec.item, codec.out))

\* The round trip of the records without a set, a Binary or a hint.
RoundTripOfPlainValues ==
  (/\ codec.phase = "done"
   /\ codec.item # NoNode
   /\ "a" \in MapKeys(codec.item)
   /\ \/ MapGet(codec.item, "a").t \in {"S", "N", "BOOL", "NULL"}
      \/ /\ MapGet(codec.item, "a").t \in {"L", "M"}
         /\ \A i \in 1..Len(MapGet(codec.item, "a").kids) :
              MapGet(codec.item, "a").kids[i].t
                \in {"S", "N", "BOOL", "NULL", "M"})
    => (codec.err = Nil /\ Same(codec.item, codec.out))

\* The JSON texts decoded as they are, not produced by Encode, whose
\* decoding has succeeded.
DecodedText ==
  /\ codec.phase = "done"
  /\ codec.item = NoNode
  /\ codec.err = Nil
  /\ codec.json.t = "jobject"

\* The name of an attribute without the hint at its end.
Bare(key) ==
  IF HasHint(key) THEN SubSeq(key, 1, LastIndex(key, "<") - 1) ELSE key

SupportedHints == {"S", "N", "BOOL", "NULL", "L", "M", "SS", "NS", "BS", "B"}

\* The name ends in the hint of a supported type.
CarriesHint(name) ==
  HasHint(name) /\ ToUpper(TypeHint(name)) \in SupportedHints

\* The names of the attributes of a record, or of a JSON text, at any
\* depth: its own, and those of the maps in its maps and lists.
RECURSIVE Names(_)
Names(av) ==
  (IF av.t \in {"M", "jobject"} THEN MapKeys(av) ELSE {})
    \cup UNION {Names(av.kids[i]) : i \in 1..Len(av.kids)}

\* C19: when decoding has succeeded, no attribute name of the record, at
\* any depth (in a nested map without a hint and in a map inside a list as
\* well), ends in the hint of a type.
NoHintLeftOnNames ==
  (codec.phase = "done" /\ codec.err = Nil) =>
    \A name \in Names(codec.out) : ~CarriesHint(name)

\* {"a": {"b<N>": "5"}} has been decoded.
NestedHintDecoded ==
  /\ DecodedText
  /\ codec.json
       = Object(<<"a">>, <<Object(<<"b<N>">>, <<Leaf("jstring", "5")>>)>>)

\* The hints of the JSON text, at any depth, that name no supported type.
UnsupportedHints(j) ==
  {TypeHint(name) : name \in {n \in Names(j) : HasHint(n) /\ ~CarriesHint(n)}}

\* strings.HasSuffix
HasSuffix(s, suffix) ==
  /\ Len(s) >= Len(suffix)
  /\ SubSeq(s, Len(s) - Len(suffix) + 1, Len(s)) = suffix

\* C20: decoding a JSON text in which an attribute has a hint that names
\* no supported type fails: no record is produced, and the error is a
\* type-conversion error that names the hint; so it is for {"x<ZZZ>": 1}.
UnsupportedHintFails ==
  (/\ codec.phase = "done"
   /\ codec.item = NoNode
   /\ codec.json.t = "jobject"
   /\ UnsupportedHints(codec.json) # {})
    => /\ codec.err # Nil
       /\ codec.out = NoNode
       /\ \E hint \in UnsupportedHints(codec.json) :
            HasSuffix(codec.err, "unknown type hint: " \o hint)

\* The same of the top-level attributes alone.
UnsupportedTopLevelHintFails ==
  (/\ codec.phase = "done"
   /\ codec.item = NoNode
   /\ codec.json.t = "jobject"
   /\ \E name \in MapKeys(codec.json) : HasHint(name) /\ ~CarriesHint(name))
    => /\ codec.err # Nil
       /\ codec.out = NoNode
       /\ \E hint \in UnsupportedHints(codec.json) :
            HasSuffix(codec.err, "unknown type hint: " \o hint)

\* {"x<ZZZ>": 1} has been decoded, with the error that names ZZZ.
ZZZRefused ==
  /\ codec.phase = "done"
  /\ codec.json = ZZZDoc
  /\ codec.err = "failed to convert x with type ZZZ: unknown type hint: ZZZ"

\* The text is a numeric literal: a sign at most, digits with a point at
\* most and one digit at least, and at most an exponent of e, a sign at most
\* and one digit at least.
NumericLiteral(s) ==
  LET sg == Accept(s, 1, {"+", "-"})
      d == AcceptAll(s, sg, Digits)
      pt == Accept(s, d, {"."})
      f == AcceptAll(s, pt, Digits)
      e == Accept(s, f, {"e", "E"})
      es == Accept(s, e, {"+", "-"})
      ed == AcceptAll(s, es, Digits)
  IN /\ (d - sg) + (f - pt) > 0
     /\ \/ f = Len(s) + 1
        \/ e > f /\ ed > es /\ ed = Len(s) + 1

\* The parts of a key=value argument about its first "=", trimmed.
KeyPart(arg) == TrimSpace(SubSeq(arg, 1, IndexFrom(arg, "=", 1) - 1))

ValuePart(arg) == TrimSpace(SubSeq(arg, IndexFrom(arg, "=", 1) + 1, Len(arg)))

\* C21: ParseKeyValue of an argument without "=" is an error; of any other
\* argument it gives the text before the first "=" as the key and the text
\* after it as the value, both trimmed, and the value is a Number exactly
\* when it is a numeric literal without a quote, and a String otherwise.
KeyValueClassified ==
  codec.phase = "parsed" =>
    IF IndexFrom(codec.arg, "=", 1) = 0
    THEN codec.kv.err # Nil
    ELSE /\ codec.kv.err = Nil
         /\ codec.kv.key = KeyPart(codec.arg)
         /\ codec.kv.value = ValuePart(codec.arg)
         /\ codec.kv.type =
              (IF /\ NumericLiteral(ValuePart(codec.arg))
                  /\ ~ContainsChar(ValuePart(codec.arg), "\"")
               THEN "N" ELSE "S")

\* The same, a value being a String whenever it is no Number: the numeric
\* literals are Numbers, and the three arguments age=42, name=bob and
\* name="42" are a Number, a String and a String.
NumericLiteralsAreNumbers ==
  codec.phase = "parsed" =>
    /\ (IndexFrom(codec.arg, "=", 1) = 0) = (codec.kv.err # Nil)
    /\ (/\ codec.kv.err = Nil
        /\ NumericLiteral(ValuePart(codec.arg))) => codec.kv.type = "N"
    /\ codec.arg = "age=42" => codec.kv.type = "N" /\ codec.kv.value = "42"
    /\ codec.arg = "name=bob" => codec.kv.type = "S"
    /\ codec.arg = "name=\"42\"" =>
         codec.kv.type = "S" /\ codec.kv.value = "\"42\""

\* Command lines of /query: an index name and a key, a key alone, two
\* key=value arguments, a lone word, and three arguments.
QueryLines ==
  {"/query byDate pk=foo", "/query pk=foo", "/query a=b pk=foo",
   "/query byDate", "/query byDate pk=foo sk=1", "/QUERY byDate id=7"}

\* C22: entering a /query line with a table loaded, the first argument is
\* the index name exactly when there is more than one argument and the
\* first holds no "=", and the key condition is then the second argument;
\* otherwise there is no index and the key condition is the first argument.
\* "/query byDate pk=foo" queries the index byDate with pk = foo and
\* "/query pk=foo" queries the table, with no index.
QueryIndexArgument ==
  (m.mode = ModeCommand /\ Len(m.tables) > 0) =>
    /\ \A line \in QueryLines :
         LET args == Tail(Fields(line))
             indexed == Len(args) > 1 /\ IndexFrom(args[1], "=", 1) = 0
             keyArg == IF indexed THEN args[2] ELSE args[1]
             r == handleKeyPress([m EXCEPT !.input = line], "enter",
                                 CreateTemp("ok"))
         IN IF IndexFrom(keyArg, "=", 1) = 0
            THEN r.cmd = NoCmd
            ELSE /\ r.cmd.kind = "query"
                 /\ r.cmd.index = (IF indexed THEN args[1] ELSE "")
                 /\ r.cmd.cond = KeyPart(keyArg) \o " = :pk"
                 /\ r.cmd.key[1][3] = ValuePart(keyArg)
    /\ \A i \in 1..Len(pending) :
         pending[i].kind = "query" =>
           /\ pending[i].index \in {"", "byDate"}
           /\ pending[i].index = "byDate" =>
                /\ pending[i].cond = "pk = :pk"
                /\ pending[i].key = <<<<":pk", "S", "foo">>>>
           /\ pending[i].index = "" =>
                pending[i].cond \in {"pk = :pk", "a = :pk"}

\* C22's case: "/query byDate pk=foo" was entered and its query is in
\* flight.
QueryOnIndexInFlight ==
  \E i \in 1..Len(pending) :
    /\ pending[i].kind = "query"
    /\ pending[i].index = "byDate"
    /\ pending[i].cond = "pk = :pk"

\* The meta-commands, and what entering a line does.
MetaCommands == {"q", "quit", "help", "?", "err"}

Entered(line) ==
  handleKeyPress([m EXCEPT !.input = line], "enter", CreateTemp("ok"))

\* C23: in Command mode each meta-command has the same effect entered with
\* ":" and with "/": q and quit make the program quit, help and ? open Help,
\* err shows the last error (or says that there is none).
MetaCommandsWithEitherPrefix ==
  m.mode = ModeCommand =>
    \A word \in MetaCommands :
      /\ Entered(":" \o word) = Entered("/" \o word)
      /\ word \in {"q", "quit"} => Entered("/" \o word).cmd = QuitCmd
      /\ word \in {"help", "?"} => Entered("/" \o word).m.mode = ModeHelp
      /\ word = "err" =>
           IF m.lastError # ""
           THEN Entered("/" \o word).m.mode = ModeErrorView
           ELSE Entered("/" \o word).m.status = "No errors"

\* The same of the spellings that executeCommand lists.
ListedMetaCommands ==
  m.mode = ModeCommand =>
    /\ \A line \in {":q", ":quit", "/q"} : Entered(line).cmd = QuitCmd
    /\ \A line \in {":?", ":help", "/?", "/help"} :
         Entered(line).m.mode = ModeHelp /\ Entered(line).cmd = NoCmd
    /\ IF m.lastError # ""
       THEN Entered("/err").m.mode = ModeErrorView
       ELSE Entered("/err").m.status = "No errors"

\* The notice of a requested table that is not in the list.
NotFoundNotice(model) ==
  "Table '" \o model.requestedTable \o "' not found, using "
    \o model.tables[1].Name

\* C24: when a table list that is not empty has been applied, the active
\* table is the requested table if the list has it, and otherwise the first
\* table, with the not-found notice in the status when a table was
\* requested; in both cases the one command issued is the load of the
\* active table's records.  When that load then succeeds while the notice
\* is displayed, the notice is still displayed afterwards.
RequestedTableSelected ==
  /\ (/\ hist.msg.type = "tablesLoaded"
      /\ hist.msg.err = Nil
      /\ Len(hist.msg.tables) > 0) =>
       /\ m.tables = hist.msg.tables
       /\ IF \E i \in 1..Len(m.tables) : m.tables[i].Name = m.requestedTable
          THEN m.tables[m.currentTable + 1].Name = m.requestedTable
          ELSE /\ m.currentTable = 0
               /\ m.requestedTable # "" => m.status = NotFoundNotice(m)
       /\ Update(hist.pre, hist.msg, CreateTemp("ok")).cmd
            = loadItems(m.tables[m.currentTable + 1].Name, "")
       /\ Len(pending) > 0
       /\ pending[Len(pending)]
            = loadItems(m.tables[m.currentTable + 1].Name, "")
  /\ (/\ hist.msg.type = "itemsLoaded"
      /\ hist.msg.err = Nil
      /\ ~hist.msg.noMatch
      /\ hist.pre.preserveStatus
      /\ hist.pre.status = NotFoundNotice(hist.pre)) =>
       /\ m.status = NotFoundNotice(m)
       /\ m.items = hist.msg.items

\* C24's case: the requested table was not in the list, the first table's
\* records have been loaded and the notice is displayed.
NoticeAfterFirstLoad ==
  /\ hist.msg.type = "itemsLoaded"
  /\ hist.msg.err = Nil
  /\ m.requestedTable = "nosuch"
  /\ m.currentTable = 0
  /\ Len(m.items) > 0
  /\ m.status = "Table 'nosuch' not found, using t1"

\* handleKeyPress of a key, the model alone.
Pressed(model, key) == handleKeyPress(model, key, CreateTemp("ok")).m

\* After first, key and first again, pressed in a Normal mode that key
\* neither leaves nor quits from, no chord of first has been completed:
\* ConfirmDelete is not open and the cursor is where key left it.
NoChordAcross(first, key) ==
  LET one == Pressed(m, first)
      other == Pressed(one, key)
      last == Pressed(other, first)
  IN (/\ key # first
      /\ other.mode = ModeNormal
      /\ handleKeyPress(one, key, CreateTemp("ok")).cmd # QuitCmd) =>
       /\ other.keyBuffer # first
       /\ last.mode # ModeConfirmDelete
       /\ last.cursor = other.cursor

\* C25: in Normal mode a key that does not continue a chord resets the
\* lookback buffer: after d, another key and d, ConfirmDelete is not open
\* (so for d, q, d and d, e, d), and after g, another key and g, the cursor
\* has not been put on the first record.
ChordKeysAdjacent ==
  m.mode = ModeNormal /\ m.keyBuffer = "" =>
    \A key \in NormalKeys : NoChordAcross("d", key) /\ NoChordAcross("g", key)

\* The same of the keys other than q and e.
ChordKeysAdjacentButQE ==
  m.mode = ModeNormal /\ m.keyBuffer = "" =>
    \A key \in NormalKeys \ {"q", "e"} :
      NoChordAcross("d", key) /\ NoChordAcross("g", key)

\* C26: in ConfirmDelete the keys n, N and Esc return to Normal, issue no
\* operation and leave the records, the cursor, the selection, the active
\* table and the status (and all else) as they are; a key other than these
\* and y and Y leaves the mode ConfirmDelete and changes nothing.
DeclineHasNoEffect ==
  m.mode = ModeConfirmDelete =>
    \A key \in AllKeys \cup {"n", "N", "esc", "y", "Y"} :
      LET r == Update(m, KeyMsg(key), CreateTemp("ok"))
      IN /\ key \in {"n", "N", "esc"} =>
              /\ r.cmd = NoCmd
              /\ r.m = [m EXCEPT !.mode = ModeNormal]
              /\ r.m.items = m.items
              /\ r.m.cursor = m.cursor
              /\ r.m.selected = m.selected
              /\ r.m.currentTable = m.currentTable
              /\ r.m.status = m.status
         /\ key \notin {"n", "N", "esc", "y", "Y"} =>
              r.cmd = NoCmd /\ r.m = m

\* C26's case: a delete awaits confirmation, with a record selected and the
\* cursor on the second record.
ConfirmDeleteOverSelection ==
  /\ m.mode = ModeConfirmDelete
  /\ m.selected # {}
  /\ m.cursor = 1
  /\ Len(m.items) = 2

\* C27: when an operation-done message has been applied: if it carried no
\* error and a table is loaded, the one command issued is the load of the
\* active table's records, which is now in flight (and without a table no
\* command is issued); if it carried an error no command is issued and the
\* records, the cursor and the selection are as they were.
OperationDoneReloads ==
  hist.msg.type = "operationDone" =>
    LET r == Update(hist.pre, hist.msg, CreateTemp("ok"))
        reload == loadItems(m.tables[m.currentTable + 1].Name, "")
    IN IF hist.msg.err = Nil
       THEN IF Len(m.tables) > 0
            THEN /\ r.cmd = reload
                 /\ Len(pending) > 0
                 /\ pending[Len(pending)] = reload
                 /\ m.currentTable = hist.pre.currentTable
            ELSE r.cmd = NoCmd
       ELSE /\ r.cmd = NoCmd
            /\ m.items = hist.pre.items
            /\ m.cursor = hist.pre.cursor
            /\ m.selected = hist.pre.selected

\* C27's case: a delete has ended without error and the reload of the
\* records is in flight.
ReloadAfterDelete ==
  /\ hist.msg.type = "operationDone"
  /\ hist.msg.err = Nil
  /\ Len(m.items) > 0
  /\ Len(pending) > 0
  /\ pending[Len(pending)].kind = "scan"

\* C27's other case: an operation has failed over a list with a selection.
FailureKeepsList ==
  /\ hist.msg.type = "operationDone"
  /\ hist.msg.err # Nil
  /\ m.selected # {}

\* C28: edit sessions do not interleave: the completion of each session has
\* read and removed the file that openEditor made for that session, and once
\* no editor is open no temporary file is left.
SessionsOwnTheirFiles ==
  /\ \A i \in ExitedEditors : pending[i].removed = pending[i].file
  /\ OpenEditors = {} => m.tmpFiles = {}

\* Two edits were requested before the first editor was started.
TwoEditorsQueued ==
  \E i, j \in OpenEditors :
    /\ i # j
    /\ pending[i].phase = "queued"
    /\ pending[j].phase = "queued"

\* The JSON text decoded is one attribute with a BOOL hint, and its value.
BoolHinted ==
  /\ codec.phase = "done"
  /\ codec.item = NoNode
  /\ codec.json.t = "jobject"
  /\ Len(codec.json.strs) = 1
  /\ HasHint(codec.json.strs[1])
  /\ ToUpper(TypeHint(codec.json.strs[1])) = "BOOL"

BoolSource == codec.json.kids[1]

\* The value is a JSON boolean, or the string true or false in any case.
ReadsAsBoolean(j) ==
  \/ j.t = "jbool"
  \/ j.t = "jstring" /\ ToLower(j.s) \in {"true", "false"}

\* C29: a BOOL hint over a value that is neither a JSON boolean nor the
\* string "true" or "false", in any case, makes decoding fail: an error is
\* returned and no record.
UnreadableBooleanFails ==
  (BoolHinted /\ ~ReadsAsBoolean(BoolSource)) =>
    (codec.err # Nil /\ codec.out = NoNode)

\* A BOOL hint over a boolean or over true or false gives that Boolean, and
\* over a value that is no string and no boolean it fails with a conversion
\* error.
BooleanHintOverOtherValues ==
  BoolHinted =>
    /\ ReadsAsBoolean(BoolSource) =>
         /\ codec.err = Nil
         /\ codec.out = Record(<<"age">>, <<Leaf("BOOL", ToLower(BoolSource.s))>>)
    /\ BoolSource.t \notin {"jbool", "jstring"} =>
         /\ codec.out = NoNode
         /\ HasSuffix(codec.err, " to boolean")

\* C30: in every reachable state with mode Normal, Enter opens ItemView on
\* the record under the cursor when there are records, and when there are
\* none it is a no-op: the mode, the records and the status stay and no
\* operation is issued.
EnterViewsRecord ==
  m.mode = ModeNormal =>
    LET r == Update(m, KeyMsg("enter"), CreateTemp("ok"))
    IN IF Len(m.items) > 0
       THEN /\ r.m.mode = ModeItemView
            /\ r.m.viewContent = ItemToPrettyJSON(m.items[m.cursor + 1])
            /\ r.cmd = NoCmd
       ELSE /\ r.m.mode = ModeNormal
            /\ r.m.items = m.items
            /\ r.m.status = m.status
            /\ r.cmd = NoCmd

\* The same of the states whose command input is empty.
EnterViewsRecordOnEmptyInput ==
  m.mode = ModeNormal /\ m.input = "" =>
    LET r == Update(m, KeyMsg("enter"), CreateTemp("ok"))
    IN IF Len(m.items) > 0
       THEN /\ r.m.mode = ModeItemView
            /\ r.m.viewContent = ItemToPrettyJSON(m.items[m.cursor + 1])
            /\ r.cmd = NoCmd
       ELSE /\ r.m.mode = ModeNormal
            /\ r.m.items = m.items
            /\ r.m.status = m.status
            /\ r.cmd = NoCmd
\* ------------------------------------------------------------------------
\* The editor's result: saved only when the text was changed
\* ------------------------------------------------------------------------

\* What Update does with the message of the editor in flight at i, whose
\* callback has run without a failure.
EditorResult(i) ==
  Update(m, editorFinishedMsg(pending[i].content, pending[i].orig, Nil),
         CreateTemp("ok"))

\* The editors whose callback has run without a failure.
FinishedEditors ==
  {i \in 1..Len(pending) :
     /\ pending[i].kind = "editor"
     /\ pending[i].phase = "exited"
     /\ pending[i].failed = Nil}

\* C31: when an editor exits having left in its file the text the file held
\* when the editor was opened, its message issues no save and no reload and
\* sets the status to "No changes made"; a save is issued only for an editor
\* that left another text.
UnchangedTextNotSaved ==
  \A i \in FinishedEditors :
    /\ pending[i].left = pending[i].orig =>
         /\ EditorResult(i).cmd = NoCmd
         /\ EditorResult(i).m = [m EXCEPT !.status = "No changes made"]
    /\ EditorResult(i).cmd.kind \in {"save", "saveNoTable"} =>
         pending[i].left # pending[i].orig

\* The same of the text the callback read (the content of its message): it
\* is saved only when it differs from the original the closure captured.
UnchangedMessageNotSaved ==
  \A i \in FinishedEditors :
    /\ pending[i].content = pending[i].orig =>
         /\ EditorResult(i).cmd = NoCmd
         /\ EditorResult(i).m = [m EXCEPT !.status = "No changes made"]
    /\ EditorResult(i).cmd.kind \in {"save", "saveNoTable"} =>
         pending[i].content # pending[i].orig

\* An editor has exited, its text unchanged, and its callback has read and
\* removed its own file.
UnchangedEditorExited ==
  \E i \in FinishedEditors :
    /\ pending[i].left = pending[i].orig
    /\ pending[i].removed = pending[i].file
    /\ pending[i].content = pending[i].orig
\* ------------------------------------------------------------------------
\* Keys sent to the backend, and the table the records came from
\* ------------------------------------------------------------------------

\* The table of that name.
TableNamed(name) == CHOOSE table \in {T1, T2} : table.Name = name

\* A record loaded from the table named from holds the attribute: the
\* records here hold the key attributes of their table and no other.
HasAttribute(from, attr) ==
  /\ from # ""
  /\ attr # ""
  /\ attr \in {TableNamed(from).PartitionKey, TableNamed(from).SortKey}

\* The key the loop of deleteSelectedItems builds from the record item, which
\* was loaded from the table named from: key[table.PartitionKey] is
\* item[table.PartitionKey] (nil when the record has no such attribute), and
\* key[table.SortKey] is set when the table has a sort key and the record
\* holds it.
BatchKey(table, item, from) ==
  <<<<table.PartitionKey,
      IF HasAttribute(from, table.PartitionKey) THEN item ELSE Nil>>>>
    \o (IF table.SortKey # "" /\ HasAttribute(from, table.SortKey)
        THEN <<<<table.SortKey, item>>>> ELSE <<>>)

\* The key holds the table's partition-key attribute, its sort-key attribute
\* when the table has one, and no other attribute.
KeyOfTable(table, key) ==
  {key[n][1] : n \in 1..Len(key)}
    = {table.PartitionKey} \cup ({table.SortKey} \ {""})

\* C32: every key sent to the backend by get, update (the fetch for the
\* edit), direct delete and batch delete holds the partition-key attribute of
\* the table that was active when the command was entered, its sort-key
\* attribute whenever that table has a sort key, and no other attribute.
KeysOfActiveTable ==
  \A i \in 1..Len(pending) :
    LET cmd == pending[i]
    IN /\ cmd.kind \in {"get", "fetchForEdit", "delete"} =>
            KeyOfTable(TableNamed(cmd.table), cmd.key)
       /\ cmd.kind = "batchDelete" /\ cmd.failed = Nil =>
            \A idx \in cmd.todo :
              idx < Len(m.items) =>
                KeyOfTable(TableNamed(cmd.table),
                           BatchKey(TableNamed(cmd.table), m.items[idx + 1],
                                    hist.from))

\* The same of the commands that were given a value for every key attribute
\* of the table, and of the batch deletes of records of the table they are
\* sent to.
KeysOfActiveTableWhenGiven ==
  \A i \in 1..Len(pending) :
    LET cmd == pending[i]
        table == TableNamed(cmd.table)
    IN /\ cmd.kind \in {"get", "fetchForEdit", "delete"} =>
            \/ KeyOfTable(table, cmd.key)
            \/ table.SortKey # "" /\ Len(cmd.key) = 1
                 /\ cmd.key[1][1] = table.PartitionKey
       /\ cmd.kind = "batchDelete" /\ cmd.failed = Nil /\ hist.from = cmd.table =>
            \A idx \in cmd.todo :
              idx < Len(m.items) =>
                KeyOfTable(table, BatchKey(table, m.items[idx + 1], hist.from))

\* A get with both key values is in flight against the table with a sort key.
FullKeyInFlight ==
  \E i \in 1..Len(pending) :
    /\ pending[i].kind = "get"
    /\ pending[i].table = "t2"
    /\ pending[i].key = <<<<"id", "A">>, <<"ts", "1">>>>

\* C33: whenever no operation is in flight and the record list is not
\* empty, the records were loaded from the active table, and the batch delete
\* a confirmation would issue is sent to the table the records came from.
RecordsOfActiveTable ==
  Len(pending) = 0 /\ Len(m.items) > 0 /\ Len(m.tables) > 0 =>
    /\ hist.from = CurrentTable(m).Name
    /\ deleteSelectedItems(m).kind = "batchDelete" =>
         deleteSelectedItems(m).table = hist.from

\* A reload of the table chosen in TableSelect has failed: the records of
\* the table that was active before are still listed.
FailedReloadKeepsOldRecords ==
  /\ Len(pending) = 0
  /\ Len(m.items) > 0
  /\ hist.msg.type = "itemsLoaded"
  /\ hist.msg.err # Nil
  /\ hist.from # CurrentTable(m).Name

\* A batch delete is in flight for the table the records were not loaded
\* from.
BatchDeleteOnOtherTable ==
  \E i \in 1..Len(pending) :
    /\ pending[i].kind = "batchDelete"
    /\ pending[i].table # hist.from
    /\ Len(m.items) > 0
\* ------------------------------------------------------------------------
\* The command line outside Command mode
\* ------------------------------------------------------------------------

\* C34: whenever the mode is not Command the command input is empty, so
\* Enter in Normal mode executes no leftover command text; also after an
\* error message has opened ErrorView while a command line was being typed.
InputEmptyOutsideCommand ==
  /\ m.mode # ModeCommand => m.input = ""
  /\ m.mode = ModeNormal =>
       handleKeyPress(m, "enter", CreateTemp("ok"))
         = handleKeyPress([m EXCEPT !.input = ""], "enter", CreateTemp("ok"))

\* The same of the states that no error message was applied in while the
\* command line was open.
InputEmptyUnlessBounced ==
  m.mode \notin {ModeCommand, ModeErrorView} /\ ~hist.everErr => m.input = ""
\* ------------------------------------------------------------------------
\* The batch delete and the record list it reads
\* ------------------------------------------------------------------------

\* C35: a confirmed batch delete deletes the records that were at the
\* selected indices (or under the cursor) when the user confirmed, also when
\* a message replaces the record list before the task reads it: at every
\* index the task has still to visit it finds a record that was there at the
\* confirmation, and it has called DeleteItem for no other record.
BatchDeleteReadsConfirmedRecords ==
  \A i \in 1..Len(pending) :
    pending[i].kind = "batchDelete" /\ pending[i].failed = Nil =>
      /\ \A idx \in pending[i].todo :
           /\ idx < Len(m.items)
           /\ m.items[idx + 1] \in pending[i].atConfirm
      /\ pending[i].deleted \subseteq pending[i].atConfirm
\* C36: a batch delete that reports an error has deleted no record of the
\* batch at the backend.
BatchDeleteAllOrNothing ==
  \A i \in 1..Len(pending) :
    pending[i].kind = "batchDelete" /\ pending[i].failed # Nil =>
      pending[i].deleted = {}

\* A batch delete has failed at its first call of DeleteItem.
BatchDeleteFailedAtFirst ==
  \E i \in 1..Len(pending) :
    /\ pending[i].kind = "batchDelete"
    /\ pending[i].failed # Nil
    /\ pending[i].deleted = {}
    /\ Cardinality(pending[i].todo) = 2
\* ------------------------------------------------------------------------
\* /update: the record list when nothing is saved
\* ------------------------------------------------------------------------

\* The record list, the cursor and the selection are the same in both.
SameList(a, b) ==
  a.items = b.items /\ a.cursor = b.cursor /\ a.selected = b.selected

\* The fetches of /update in flight.
Fetches == {i \in 1..Len(pending) : pending[i].kind = "fetchForEdit"}

\* The messages of an editor that end the workflow without a save: the
\* editor failed, or the text read is the original.
EndsWithoutSave(cmd) ==
  {editorFinishedMsg("", "", Err50), editorFinishedMsg(cmd.orig, cmd.orig, Nil)}

\* C37: an /update that ends without saving (the record is not found, the
\* fetch fails, the editor fails, or nothing was changed) leaves the record
\* list, the cursor and the selection as they were.
UpdateWithoutSaveKeepsList ==
  \A i \in Fetches, fs \in Env.fs :
    \A msg \in Results(pending[i], Env) :
      LET r == Update(m, msg, CreateTemp(fs))
      IN IF r.cmd.kind = "editor"
         THEN \A end \in EndsWithoutSave(r.cmd) :
                /\ Update(r.m, end, CreateTemp(fs)).cmd = NoCmd
                /\ SameList(Update(r.m, end, CreateTemp(fs)).m, m)
         ELSE r.cmd = NoCmd /\ SameList(r.m, m)

\* The same of an /update whose record was not fetched: it is not found, or
\* the fetch fails.
UpdateNotFetchedKeepsList ==
  \A i \in Fetches, fs \in Env.fs :
    \A msg \in Results(pending[i], Env) :
      msg.err # Nil \/ msg.item = Nil =>
        /\ Update(m, msg, CreateTemp(fs)).cmd = NoCmd
        /\ SameList(Update(m, msg, CreateTemp(fs)).m, m)

\* A fetch of /update is in flight over a list of two records, the cursor
\* on the second.
FetchOverTwoRecords ==
  /\ Fetches # {}
  /\ Len(m.items) = 2
  /\ m.cursor = 1
\* ------------------------------------------------------------------------
\* Unknown commands
\* ------------------------------------------------------------------------

\* The verbs of the command language, as the first token of a line.
RecognisedVerbs ==
  {"/scan", "/query", "/get", "/put", "/update", "/delete", "/rm"}

\* Command lines: every recognised verb without and with arguments, in
\* either case of letters, and lines whose first token is no verb.
VerbLines ==
  {"/scan", "/scan byDate", "/SCAN", "/query pk=foo", "/get", "/get A",
   "/put", "/update A", "/delete A", "/rm", "/foo", "/scanx", "/ scan"}

\* The first token of the line, in lower case.
Verb(line) == ToLower(Fields(line)[1])

\* What executeCommand does with the line, entered on a command line that
\* was opened in this state (opening it clears m.err).
Executed(line) ==
  executeCommand([m EXCEPT !.err = Nil], line, CreateTemp("ok"))

\* The line ends in the error "unknown command" with its first token.
UnknownCommand(line) ==
  Executed(line) =
    Ret(setError([m EXCEPT !.err = Nil], "unknown command: " \o Verb(line)),
        NoCmd)

\* C38: a command line ends in the error "unknown command", with the
\* offending token, exactly when its verb is not a recognised one, whatever
\* the state of the session: with or without tables loaded.
UnknownCommandOnlyForUnknownVerbs ==
  \A line \in VerbLines :
    UnknownCommand(line) <=> Verb(line) \notin RecognisedVerbs

\* The same of the sessions with a table loaded, and of every verb but scan
\* in the sessions without.
UnknownCommandWithTables ==
  \A line \in VerbLines :
    Len(m.tables) > 0 \/ Verb(line) # "/scan" =>
      (UnknownCommand(line) <=> Verb(line) \notin RecognisedVerbs)

\* No table is loaded and the session is at rest in Normal mode.
NoTableLoaded ==
  /\ Len(m.tables) = 0
  /\ Len(pending) = 0
  /\ m.mode = ModeNormal
  /\ m.status = "No tables found"
\* ------------------------------------------------------------------------
\* Decoding and the order Go ranges over a map
\* ------------------------------------------------------------------------

\* C39: decoding is deterministic: the text decoded gives the record, or
\* fails, as it does in every order processTypeHints can range over the
\* attributes in; also when two names are equal once their hints are
\* stripped.
DecodingDeterministic ==
  codec.phase = "done" /\ codec.item = NoNode =>
    \A rev \in BOOLEAN :
      /\ (JSONToItem(codec.json, rev).err = Nil) = (codec.err = Nil)
      /\ Same(JSONToItem(codec.json, rev).val, codec.out)

\* The names of the object, each without its hint.
BareNames(j) == {Bare(j.strs[n]) : n \in 1..Len(j.strs)}

\* The same of the texts whose names stay distinct without their hints, at
\* every depth.
RECURSIVE DistinctBareNames(_)
DistinctBareNames(j) ==
  /\ j.t = "jobject" => Cardinality(BareNames(j)) = Len(j.strs)
  /\ \A n \in 1..Len(j.kids) : DistinctBareNames(j.kids[n])

DecodingDeterministicOfDistinctNames ==
  codec.phase = "done" /\ codec.item = NoNode /\ DistinctBareNames(codec.json) =>
    \A rev \in BOOLEAN :
      /\ (JSONToItem(codec.json, rev).err = Nil) = (codec.err = Nil)
      /\ Same(JSONToItem(codec.json, rev).val, codec.out)

\* An object of two names with distinct hints has been decoded.
TwoHintedNamesDecoded ==
  /\ codec.phase = "done"
  /\ codec.item = NoNode
  /\ codec.err = Nil
  /\ codec.json.t = "jobject"
  /\ Len(codec.json.strs) = 2
  /\ DistinctBareNames(codec.json)
\* ------------------------------------------------------------------------
\* The active table
\* ------------------------------------------------------------------------

\* C40: whenever the table list is not empty the index of the active table
\* is within it, 0 <= currentTable < len(tables), so that m.tables[
\* m.currentTable] is a table of the list.
ActiveTableWithinList ==
  Len(m.tables) > 0 =>
    /\ m.currentTable >= 0
    /\ m.currentTable < Len(m.tables)
    /\ CurrentTable(m) \in {T1, T2}

\* C40's case: in TableSelect the last table of the list is the active one,
\* reached by moving down from the first.
LastTableActive ==
  /\ m.mode = ModeTableSelect
  /\ Len(m.tables) = 2
  /\ m.currentTable = 1
  /\ hist.tsEntry = 0

====
